---------------------------- MODULE Spec2Model ----------------------------
(***************************************************************************)
(* A model of the Qt Linguist tool chain ported to Python: the message     *)
(* store (translator.py), the binary catalog codec (qm.py) and the plural  *)
(* rule table (numerus.py).                                                *)
(*                                                                         *)
(* Text (Python str) is a sequence of code points, binary data (Python     *)
(* bytes) a sequence of numbers 0..255.  Conversions between the two       *)
(* (UTF-8, UTF-16, big-endian integers) are computed, never assumed.       *)
(***************************************************************************)
EXTENDS Integers, Sequences, FiniteSets, TLC

VARIABLES
    m_messages,     \* Translator.m_messages: the entry sequence
    m_indexOk,      \* Translator.m_indexOk
    m_ctxCmtIdx,    \* Translator.m_ctxCmtIdx: set of <<context, position>>
    m_idMsgIdx,     \* Translator.m_idMsgIdx: set of <<id, position>>
    m_msgIdx,       \* Translator.m_msgIdx: set of <<TMMKey, position>>
    m_language,     \* Translator.m_language
    m_errors,       \* ConversionData.m_errors: the diagnostics sink
    cd,             \* ConversionData: the flags saveQM reads
    byId,           \* the set object that is Duplicates.byId's default value
    byContents,     \* the set object that is Duplicates.byContents's default
    dev,            \* the bytes of the file that saveQM writes and loadQM reads
    ByteOrder,      \* QSysInfo.Endian.ByteOrder of the host
    last            \* the last call: its name, arguments, result, the state before

vars == <<m_messages, m_indexOk, m_ctxCmtIdx, m_idMsgIdx, m_msgIdx, m_language,
          m_errors, cd, byId, byContents, dev, ByteOrder, last>>

(***************************************************************************)
(* Sequences.                                                              *)
(***************************************************************************)
Range(s) == {s[i] : i \in 1..Len(s)}

\* s[n:] of Python (n >= 0): the empty sequence when n is past the end.
Drop(s, n) == IF n >= Len(s) THEN <<>> ELSE SubSeq(s, n + 1, Len(s))

\* s[:n] of Python (n >= 0): the whole sequence when n is past the end.
Take(s, n) == IF n >= Len(s) THEN s ELSE SubSeq(s, 1, n)

\* All sequences over S of length 0..n.
SeqsUpTo(S, n) == UNION {[1..k -> S] : k \in 0..n}

RECURSIVE Flatten(_)
Flatten(ss) == IF ss = <<>> THEN <<>> ELSE Head(ss) \o Flatten(Tail(ss))

\* Lexicographic order of two sequences of numbers (bytes.__lt__, str.__lt__).
RECURSIVE SeqLess(_, _)
SeqLess(a, b) ==
    IF b = <<>> THEN FALSE
    ELSE IF a = <<>> THEN TRUE
    ELSE IF Head(a) # Head(b) THEN Head(a) < Head(b)
    ELSE SeqLess(Tail(a), Tail(b))

(***************************************************************************)
(* Bit operations on naturals.                                             *)
(***************************************************************************)
RECURSIVE Xor(_, _)
Xor(a, b) ==
    IF a = 0 THEN b
    ELSE IF b = 0 THEN a
    ELSE ((a + b) % 2) + 2 * Xor(a \div 2, b \div 2)

Pow2_24 == 16777216
Pow2_28 == 268435456

(***************************************************************************)
(* elfHash.  Python integers are unbounded, so nothing wraps at 32 bits:   *)
(* the value is kept as <<hi, lo>> = hi * 2^28 + lo with lo < 2^28.  One   *)
(* step shifts in a byte, folds bits 28..31 into bits 4..7 and clears bits *)
(* 28..31; bits 32 and up are never cleared.                               *)
(***************************************************************************)
elfStep(h, k) ==
    LET a    == h[2] \div Pow2_24              \* bits 24..27 of lo
        c    == (h[2] % Pow2_24) * 16 + k      \* low part of (h << 4) + k
        top  == h[1] * 16 + a + (c \div Pow2_28)  \* ((h << 4) + k) >> 28
        c0   == c % Pow2_28
        g    == top % 16                       \* (h & 0xF0000000) >> 28
        mid  == (c0 \div 16) % 16
        x    == IF g # 0 THEN c0 - mid * 16 + Xor(mid, g) * 16 ELSE c0
    IN  <<top - g, x>>

RECURSIVE elfLoop(_, _)
elfLoop(h, ba) == IF ba = <<>> THEN h ELSE elfLoop(elfStep(h, Head(ba)), Tail(ba))

elfHashRaw(ba) == elfLoop(<<0, 0>>, ba)

\* elfHash without its last step: the raw value, a zero not replaced.
elfHashNoForce(ba) == elfHashRaw(ba)

elfHash(ba) ==
    LET h == elfHashRaw(ba)
    IN  IF h = <<0, 0>> THEN <<0, 1>> ELSE h


(***************************************************************************)
(* Text.  The code points the model draws its strings from, and the        *)
(* conversions of qm.py.                                                   *)
(***************************************************************************)
EmptyStr == <<>>

\* str.encode("utf-8") of one code point (surrogates, which raise, are not drawn).
Utf8OfChar(c) ==
    IF c < 128 THEN <<c>>
    ELSE IF c < 2048 THEN <<192 + (c \div 64), 128 + (c % 64)>>
    ELSE IF c < 65536 THEN <<224 + (c \div 4096), 128 + ((c \div 64) % 64), 128 + (c % 64)>>
    ELSE <<240 + (c \div 262144), 128 + ((c \div 4096) % 64),
           128 + ((c \div 64) % 64), 128 + (c % 64)>>

RECURSIVE originalBytes(_)
originalBytes(string) ==
    IF string = <<>> THEN <<>>
    ELSE Utf8OfChar(Head(string)) \o originalBytes(Tail(string))

\* str.encode("utf_16_be") for code points of the basic plane.
RECURSIVE Utf16BE(_)
Utf16BE(t) ==
    IF t = <<>> THEN <<>>
    ELSE <<Head(t) \div 256, Head(t) % 256>> \o Utf16BE(Tail(t))

IsCont(b) == b >= 128 /\ b <= 191

\* bytes.decode("utf-8", errors="strict"): [ok, out].  A malformed, overlong or
\* surrogate sequence makes the whole decode fail.
RECURSIVE Utf8Decode(_)
Utf8Decode(b) ==
    IF b = <<>> THEN [ok |-> TRUE, out |-> <<>>]
    ELSE
      LET b1 == b[1]
          n  == IF b1 < 128 THEN 1
                ELSE IF b1 >= 194 /\ b1 <= 223 THEN 2
                ELSE IF b1 >= 224 /\ b1 <= 239 THEN 3
                ELSE IF b1 >= 240 /\ b1 <= 244 THEN 4
                ELSE 0
          wellFormed ==
              /\ n > 0
              /\ Len(b) >= n
              /\ \A i \in 2..n : IsCont(b[i])
              /\ (b1 = 224 => b[2] >= 160)
              /\ (b1 = 237 => b[2] <= 159)
              /\ (b1 = 240 => b[2] >= 144)
              /\ (b1 = 244 => b[2] <= 143)
      IN  IF ~wellFormed THEN [ok |-> FALSE, out |-> <<>>]
          ELSE
            LET c == CASE n = 1 -> b1
                       [] n = 2 -> (b1 - 192) * 64 + (b[2] - 128)
                       [] n = 3 -> (b1 - 224) * 4096 + (b[2] - 128) * 64 + (b[3] - 128)
                       [] n = 4 -> (b1 - 240) * 262144 + (b[2] - 128) * 4096
                                   + (b[3] - 128) * 64 + (b[4] - 128)
                rest == Utf8Decode(Drop(b, n))
            IN  IF rest.ok THEN [ok |-> TRUE, out |-> <<c>> \o rest.out]
                ELSE [ok |-> FALSE, out |-> <<>>]

\* fromBytes(data, length) -> (out, utf8_fail)
fromBytes(data, length) ==
    LET d == Utf8Decode(Take(data, length))
    IN  [out |-> d.out, utf8_fail |-> ~d.ok]

\* n.to_bytes(_, "big", signed=False); the callers check the range first.
uint8(n) == <<n>>
uint16(n) == <<n \div 256, n % 256>>
uint32(n) == <<n \div Pow2_24, (n \div 65536) % 256, (n \div 256) % 256, n % 256>>

\* int.from_bytes(data[:1], "big") and int.from_bytes(data[:4], "big"): fewer
\* bytes than asked for give the value of the bytes there are.
RECURSIVE FromBytesBig(_, _)
FromBytesBig(acc, b) ==
    IF b = <<>> THEN acc ELSE FromBytesBig(acc * 256 + Head(b), Tail(b))

read8(data) == FromBytesBig(0, Take(data, 1))
read32(data) == FromBytesBig(0, Take(data, 4))
\* read32(data, signed=True): two's complement over the bytes present.
read32Signed(data) ==
    LET d == Take(data, 4)
    IN  IF d # <<>> /\ d[1] >= 128
        THEN FromBytesBig(d[1] - 256, Tail(d))
        ELSE FromBytesBig(0, d)

(***************************************************************************)
(* TranslatorMessage: the fields the store and the codec read.             *)
(***************************************************************************)
Types == {"Unfinished", "Finished", "Vanished", "Obsolete"}

TranslatorMessage(id, context, sourceText, comment, translations, type, plural) ==
    [m_id |-> id, m_context |-> context, m_sourcetext |-> sourceText,
     m_comment |-> comment, m_translations |-> translations,
     m_type |-> type, m_plural |-> plural]

\* TranslatorMessage.translation()
translation(msg) ==
    IF msg.m_translations # <<>> THEN msg.m_translations[1] ELSE EmptyStr

\* TranslatorMessage.isTranslated()
isTranslated(msg) == \E i \in 1..Len(msg.m_translations) : msg.m_translations[i] # EmptyStr

\* TMMKey(msg): compared field by field.
TMMKey(msg) == <<msg.m_context, msg.m_sourcetext, msg.m_comment>>

(***************************************************************************)
(* Python dict as a function; positions are Python's, counted from 0.      *)
(***************************************************************************)
EmptyDict == [k \in {} |-> 0]
DictGet(d, k, default) == IF k \in DOMAIN d THEN d[k] ELSE default
\* d.setdefault(k, v): the first value of a key stays.
DictSetDefault(d, k, v) ==
    [x \in (DOMAIN d) \cup {k} |-> IF x \in DOMAIN d THEN d[x] ELSE v]
DictSet(d, k, v) == [x \in (DOMAIN d) \cup {k} |-> IF x = k THEN v ELSE d[x]]

(***************************************************************************)
(* Translator: the store and its three lazily rebuilt indices.             *)
(***************************************************************************)
Tor == [m_messages |-> m_messages, m_indexOk |-> m_indexOk,
        m_ctxCmtIdx |-> m_ctxCmtIdx, m_idMsgIdx |-> m_idMsgIdx,
        m_msgIdx |-> m_msgIdx]

SetTor(t) ==
    /\ m_messages' = t.m_messages
    /\ m_indexOk' = t.m_indexOk
    /\ m_ctxCmtIdx' = t.m_ctxCmtIdx
    /\ m_idMsgIdx' = t.m_idMsgIdx
    /\ m_msgIdx' = t.m_msgIdx

\* Translator.__init__
EmptyTor == [m_messages |-> <<>>, m_indexOk |-> TRUE, m_ctxCmtIdx |-> EmptyDict,
             m_idMsgIdx |-> EmptyDict, m_msgIdx |-> EmptyDict]

\* addIndex with the id left out of the id index.
addIndexContentOnly(t, idx, msg) ==
    IF msg.m_sourcetext = EmptyStr /\ msg.m_id = EmptyStr
    THEN [t EXCEPT !.m_ctxCmtIdx = DictSet(@, msg.m_context, idx)]
    ELSE [t EXCEPT !.m_msgIdx = DictSet(@, TMMKey(msg), idx)]

\* Translator.addIndex(idx, msg)
addIndex(t, idx, msg) ==
    IF msg.m_sourcetext = EmptyStr /\ msg.m_id = EmptyStr
    THEN [t EXCEPT !.m_ctxCmtIdx = DictSet(@, msg.m_context, idx)]
    ELSE [t EXCEPT !.m_msgIdx = DictSet(@, TMMKey(msg), idx),
                   !.m_idMsgIdx = IF msg.m_id # EmptyStr
                                  THEN DictSet(@, msg.m_id, idx) ELSE @]

\* list.insert(idx, msg), idx counted from 0
ListInsert(s, idx, x) == Take(s, idx) \o <<x>> \o Drop(s, idx)
\* del s[idx], idx counted from 0
ListDel(s, idx) == Take(s, idx) \o Drop(s, idx + 1)

insert(t, idx, msg) ==
    LET t1 == IF t.m_indexOk
              THEN IF idx = Len(t.m_messages) THEN addIndex(t, idx, msg)
                   ELSE [t EXCEPT !.m_indexOk = FALSE]
              ELSE t
    IN  [t1 EXCEPT !.m_messages = ListInsert(@, idx, msg)]

append(t, msg) == insert(t, Len(t.m_messages), msg)

RECURSIVE IndexAll(_, _)
IndexAll(t, i) ==
    IF i >= Len(t.m_messages) THEN t
    ELSE IndexAll(addIndex(t, i, t.m_messages[i + 1]), i + 1)

ensureIndexed(t) ==
    IF t.m_indexOk THEN t
    ELSE IndexAll([t EXCEPT !.m_indexOk = TRUE, !.m_ctxCmtIdx = EmptyDict,
                            !.m_idMsgIdx = EmptyDict, !.m_msgIdx = EmptyDict], 0)

\* Translator.find(msg), on an indexed store: -1 is not-found.
findIndexed(t, msg) ==
    IF msg.m_id # EmptyStr
    THEN DictGet(t.m_msgIdx, TMMKey(msg), -1)
    ELSE LET i == DictGet(t.m_idMsgIdx, msg.m_id, -1)
         IN  IF i >= 0 THEN i
             ELSE DictGet(t.m_msgIdx, TMMKey(msg), -1)
                  \* with or without an id on the stored entry: the test at
                  \* line 266 and the fall-through at line 282 return the same i

find(t, msg) == findIndexed(ensureIndexed(t), msg)

\* The loop of appendSorted over the store from position cur_idx on; s holds
\* the locals best_idx, best_score, best_size, this_idx, this_score, this_size
\* and prev_line.
RECURSIVE appendSortedScan(_, _, _, _)
appendSortedScan(msgs, msg, cur_idx, s) ==
    IF cur_idx >= Len(msgs) THEN s
    ELSE LET mit == msgs[cur_idx + 1]
             same_file == mit.m_fileName = msg.m_fileName /\ mit.m_context = msg.m_context
             cur_line == mit.m_lineNumber
             msg_line == msg.m_lineNumber
         IN  IF same_file /\ cur_line >= s.prev_line
             THEN LET hit == s.prev_line <= msg_line /\ msg_line < cur_line
                  IN  appendSortedScan(msgs, msg, cur_idx + 1,
                          [s EXCEPT !.this_idx = IF hit THEN cur_idx ELSE @,
                                    !.this_score = IF hit
                                                   THEN (IF s.this_size # 0 THEN 2 ELSE 1)
                                                   ELSE @,
                                    !.this_size = @ + 1,
                                    !.prev_line = cur_line])
             ELSE IF s.this_size # 0
             THEN LET idx == IF s.this_score = 0 THEN cur_idx ELSE s.this_idx
                      score == IF s.this_score = 0 THEN 1 ELSE s.this_score
                      better == \/ score > s.best_score
                                \/ (score = s.best_score /\ s.this_size > s.best_size)
                  IN  appendSortedScan(msgs, msg, cur_idx + 1,
                          [best_idx |-> IF better THEN idx ELSE s.best_idx,
                           best_score |-> IF better THEN score ELSE s.best_score,
                           best_size |-> IF better THEN s.this_size ELSE s.best_size,
                           this_idx |-> idx,
                           this_score |-> 0,
                           this_size |-> IF same_file THEN 1 ELSE 0,
                           prev_line |-> 0])
             ELSE appendSortedScan(msgs, msg, cur_idx + 1, s)

\* appendSorted as a plain append: the position is the end of the store.
appendSortedIndexEnd(msgs, msg) == Len(msgs)

\* The position at which appendSorted(msg) inserts msg into msgs.
appendSortedIndex(msgs, msg) ==
    IF msg.m_lineNumber < 0 THEN Len(msgs)
    ELSE LET s == appendSortedScan(msgs, msg, 0,
                      [best_idx |-> 0, best_score |-> 0, best_size |-> 0,
                       this_idx |-> 0, this_score |-> 0, this_size |-> 0,
                       prev_line |-> 0])
             post == s.this_size # 0 /\ s.this_score = 0
             this_idx == IF post THEN Len(msgs) ELSE s.this_idx
             this_score == IF post THEN 1 ELSE s.this_score
         IN  IF \/ this_score > s.best_score
                \/ (this_score = s.best_score /\ s.this_size > s.best_size)
             THEN this_idx
             ELSE IF s.best_score # 0 THEN s.best_idx
             ELSE Len(msgs)

\* Translator.appendSorted(msg)
appendSorted(t, msg) == insert(t, appendSortedIndex(t.m_messages, msg), msg)

\* Translator.delIndex(idx): each pop raises KeyError when its key is missing,
\* and what was popped before stays popped.
delIndex(t, idx) ==
    LET msg == t.m_messages[idx + 1]
        DictPop(d, k) == [x \in (DOMAIN d) \ {k} |-> d[x]]
    IN  IF msg.m_sourcetext = EmptyStr /\ msg.m_id = EmptyStr
        THEN IF msg.m_context \in DOMAIN t.m_ctxCmtIdx
             THEN [t |-> [t EXCEPT !.m_ctxCmtIdx = DictPop(@, msg.m_context)], raised |-> FALSE]
             ELSE [t |-> t, raised |-> TRUE]
        ELSE IF TMMKey(msg) \notin DOMAIN t.m_msgIdx
             THEN [t |-> t, raised |-> TRUE]
             ELSE LET t1 == [t EXCEPT !.m_msgIdx = DictPop(@, TMMKey(msg))]
                  IN  IF msg.m_id = EmptyStr THEN [t |-> t1, raised |-> FALSE]
                      ELSE IF msg.m_id \in DOMAIN t1.m_idMsgIdx
                           THEN [t |-> [t1 EXCEPT !.m_idMsgIdx = DictPop(@, msg.m_id)],
                                 raised |-> FALSE]
                           ELSE [t |-> t1, raised |-> TRUE]

\* makeMsgId(msg), with elidedId(id_, length) for the source text and the comment.
makeMsgId(msg) ==
    LET elidedId(id_, length) ==
            IF Len(id_) <= length THEN id_
            ELSE Take(id_, length - 5) \o <<91, 46, 46, 46, 93>>
        head == msg.m_context \o <<47, 47>> \o elidedId(msg.m_sourcetext, 100)
    IN  IF msg.m_comment # EmptyStr
        THEN head \o <<47, 47>> \o elidedId(msg.m_comment, 30)
        ELSE head

\* TranslatorMessage.addReferenceUniq(fileName, lineNumber); "None" is None.
addReferenceUniq(emsg, fileName, lineNumber) ==
    IF emsg.m_fileName = "None"
    THEN [emsg EXCEPT !.m_fileName = fileName, !.m_lineNumber = lineNumber]
    ELSE IF fileName = emsg.m_fileName /\ lineNumber = emsg.m_lineNumber THEN emsg
    ELSE IF \E k \in 1..Len(emsg.m_extraRefs) : emsg.m_extraRefs[k] = <<fileName, lineNumber>>
         THEN emsg
    ELSE [emsg EXCEPT !.m_extraRefs = Append(@, <<fileName, lineNumber>>)]

\* str.split(sep): the parts of s from position start on, scanning from i.
RECURSIVE strSplit(_, _, _, _)
strSplit(s, sep, start, i) ==
    IF i + Len(sep) - 1 > Len(s) THEN <<SubSeq(s, start, Len(s))>>
    ELSE IF SubSeq(s, i, i + Len(sep) - 1) = sep
         THEN <<SubSeq(s, start, i - 1)>> \o strSplit(s, sep, i + Len(sep), i + Len(sep))
         ELSE strSplit(s, sep, start, i + 1)

\* sep.join(parts)
RECURSIVE strJoin(_, _)
strJoin(sep, parts) ==
    IF parts = <<>> THEN EmptyStr
    ELSE IF Len(parts) = 1 THEN parts[1]
    ELSE parts[1] \o sep \o strJoin(sep, Tail(parts))

\* The extra comment of emsg after extend has merged msg's into it; the parts
\* of an extra comment are separated by "\n----------\n".
mergedExtraComment(emsg, msg) ==
    LET CommentSeparator == <<10, 45, 45, 45, 45, 45, 45, 45, 45, 45, 45, 10>>
        cmt == emsg.m_extraComment
    IN  IF cmt # EmptyStr
        THEN LET cmts == strSplit(cmt, CommentSeparator, 1, 1)
             IN  IF \E k \in 1..Len(cmts) : cmts[k] = msg.m_extraComment THEN cmt
                 ELSE strJoin(CommentSeparator, Append(cmts, msg.m_extraComment))
        ELSE msg.m_extraComment

\* The tail of extend, from the test of the extension metadata on: emsg is the
\* entry at index, with its source text settled.
extendMeta(t, index, emsg, msg, errors) ==
    LET conflict == emsg.m_extra # EmptyDict /\ msg.m_extra # EmptyDict
                    /\ emsg.m_extra # msg.m_extra
        e1 == IF emsg.m_extra = EmptyDict THEN [emsg EXCEPT !.m_extra = msg.m_extra] ELSE emsg
        e2 == addReferenceUniq(e1, msg.m_fileName, msg.m_lineNumber)
        e3 == IF msg.m_extraComment # EmptyStr
              THEN [e2 EXCEPT !.m_extraComment = mergedExtraComment(e2, msg)]
              ELSE e2
    IN  IF conflict
        THEN [t |-> [t EXCEPT !.m_messages[index + 1] = emsg],
              errors |-> Append(errors,
                  IF emsg.m_id # EmptyStr
                  THEN <<"Contradicting meta data for message with id", emsg.m_id>>
                  ELSE <<"Contradicting meta data for message", makeMsgId(msg)>>),
              raised |-> FALSE]
        ELSE [t |-> [t EXCEPT !.m_messages[index + 1] = e3], errors |-> errors,
              raised |-> FALSE]

\* Translator.extend(msg, cd): the store, the diagnostics, and whether a
\* KeyError left the call.
extend(t0, msg, errors) ==
    LET t == ensureIndexed(t0)
        index == findIndexed(t, msg)
    IN  IF index = -1 THEN [t |-> append(t, msg), errors |-> errors, raised |-> FALSE]
        ELSE LET emsg == t.m_messages[index + 1]
             IN  IF emsg.m_sourcetext = EmptyStr
                 THEN LET d == delIndex(t, index)
                          set == [emsg EXCEPT !.m_sourcetext = msg.m_sourcetext]
                      IN  IF d.raised THEN [t |-> d.t, errors |-> errors, raised |-> TRUE]
                          ELSE extendMeta(addIndex(d.t, index, msg), index, set, msg, errors)
                 ELSE IF msg.m_sourcetext # EmptyStr /\ emsg.m_sourcetext # msg.m_sourcetext
                 THEN [t |-> t,
                       errors |-> Append(errors,
                           <<"Contradicting source strings for message with id", emsg.m_id>>),
                       raised |-> FALSE]
                 ELSE extendMeta(t, index, emsg, msg, errors)

\* Translator.replaceSorted(msg): the store, and whether a KeyError left the
\* call.
replaceSorted(t0, msg) ==
    LET t == ensureIndexed(t0)
        index == findIndexed(t, msg)
    IN  IF index = -1 THEN [t |-> appendSorted(t, msg), raised |-> FALSE]
        ELSE LET d == delIndex(t, index)
             IN  IF d.raised THEN [t |-> d.t, raised |-> TRUE]
                 ELSE [t |-> addIndex([d.t EXCEPT !.m_messages[index + 1] = msg], index, msg),
                       raised |-> FALSE]

\* "QT_LINGUIST_INTERNAL_CONTEXT_COMMENT" stands for itself as one code point.
ContextComment == <<1>>

\* The test of each stripping pass: is the entry to be removed?
StripTest(pass, msg) ==
    CASE pass = "stripObsoleteMessages" -> msg.m_type \in {"Obsolete", "Vanished"}
      [] pass = "stripFinishedMessages" -> msg.m_type \in {"Finished"}
      [] pass = "stripUntranslatedMessages" -> ~isTranslated(msg)
      [] pass = "stripEmptyContexts" -> msg.m_sourcetext = ContextComment
      [] pass = "stripNonPluralForms" -> ~msg.m_plural
      [] pass = "stripIdenticalSourceTranslations" -> msg.m_translations = <<msg.m_sourcetext>>

\* A stripping pass: the entries the test holds of are deleted, and a deletion
\* marks the indices stale.
\* Variant of stripMessages that deletes the entries and leaves m_indexOk as
\* it was.
stripMessagesKeepIndex(t, pass) ==
    [t EXCEPT !.m_messages = SelectSeq(t.m_messages, LAMBDA m : ~StripTest(pass, m))]

stripMessages(t, pass) ==
    LET kept == SelectSeq(t.m_messages, LAMBDA m : ~StripTest(pass, m))
    IN  [t EXCEPT !.m_messages = kept,
                  !.m_indexOk = IF Len(kept) < Len(t.m_messages) THEN FALSE ELSE @]

(***************************************************************************)
(* resolveDuplicates.  id_refs and content_refs are sets of pointers, each *)
(* a position into m_messages; a pointer's hash and equality are those of  *)
(* the entry now at its position.  String hashes are taken as free of      *)
(* collisions, so that two pointers hash alike iff the texts they hash are  *)
(* the same.                                                               *)
(***************************************************************************)
\* TranslatorMessageIdPtr.__hash__ / __eq__
IdPtrHash(msgs, p) == msgs[p + 1].m_id
IdPtrEq(msgs, p, q) == msgs[p + 1].m_id = msgs[q + 1].m_id

\* TranslatorMessageContentPtr.__hash__: the comment is hashed for a context
\* comment (empty source text) only.
ContentPtrHash(msgs, p) ==
    <<msgs[p + 1].m_context, msgs[p + 1].m_sourcetext,
      IF msgs[p + 1].m_sourcetext = EmptyStr THEN msgs[p + 1].m_comment ELSE EmptyStr>>

\* TranslatorMessageContentPtr.__eq__
ContentPtrEq(msgs, p, q) ==
    IF \/ msgs[p + 1].m_context # msgs[q + 1].m_context
       \/ msgs[p + 1].m_sourcetext # msgs[q + 1].m_sourcetext
    THEN FALSE
    ELSE IF msgs[p + 1].m_sourcetext = EmptyStr THEN TRUE
    ELSE msgs[p + 1].m_comment = msgs[q + 1].m_comment

\* Variant of ContentPtrIn for pointers compared as objects, by their position,
\* as where the class defines no __hash__ and __eq__ of its own.
ContentPtrInByPosition(msgs, refs, p) == p \in refs

\* `ptr in refs` of a Python set: same hash and equal.
IdPtrIn(msgs, refs, p) ==
    \E r \in refs : IdPtrHash(msgs, r) = IdPtrHash(msgs, p) /\ IdPtrEq(msgs, r, p)
ContentPtrIn(msgs, refs, p) ==
    \E r \in refs : ContentPtrHash(msgs, r) = ContentPtrHash(msgs, p)
                    /\ ContentPtrEq(msgs, r, p)

\* refs.intersection([ptr]).pop().messageIndex: set.intersection(iterable)
\* collects the items of the iterable that are in the set, so what is popped
\* is the probing pointer itself, whose messageIndex is p.
IntersectionPop(msgs, refs, p) == p

\* One run of the loop body at position i; st holds the locals and the store.
rdBody(st) ==
    LET msgs  == st.msgs
        i     == st.i
        msg   == msgs[i + 1]
        idDup == msg.m_id # EmptyStr /\ IdPtrIn(msgs, st.id_refs, i)
        cHit  == ~idDup /\ ContentPtrIn(msgs, st.content_refs, i)
        oi    == IF idDup THEN IntersectionPop(msgs, st.id_refs, i)
                 ELSE IF cHit THEN IntersectionPop(msgs, st.content_refs, i)
                 ELSE 0
        omsg  == msgs[oi + 1]
        cDup  == cHit /\ (msg.m_id = EmptyStr \/ omsg.m_id = EmptyStr)
        setId == cDup /\ msg.m_id # EmptyStr /\ omsg.m_id = EmptyStr
        got_dupe == idDup \/ cDup
        \* omsg.setId(msg.id()); omsg.setTranslations(msg.translations())
        omsg1 == IF setId THEN [omsg EXCEPT !.m_id = msg.m_id] ELSE omsg
        omsg2 == IF ~isTranslated(omsg1) /\ isTranslated(msg)
                 THEN [omsg1 EXCEPT !.m_translations = msg.m_translations]
                 ELSE omsg1
    IN  IF ~got_dupe
        THEN [st EXCEPT !.id_refs = IF msg.m_id # EmptyStr THEN @ \cup {i} ELSE @,
                        !.content_refs =
                            IF ContentPtrIn(msgs, @, i) THEN @ ELSE @ \cup {i},
                        !.i = i + 1]
        ELSE [st EXCEPT !.id_refs = IF setId THEN @ \cup {oi} ELSE @,
                        !.byId = IF idDup THEN @ \cup {oi} ELSE @,
                        !.byContents = IF idDup THEN @ ELSE @ \cup {oi},
                        !.m_indexOk = FALSE,
                        !.msgs = ListDel([msgs EXCEPT ![oi + 1] = omsg2], i)]

RECURSIVE rdLoop(_)
rdLoop(st) == IF st.i >= Len(st.msgs) THEN st ELSE rdLoop(rdBody(st))

\* Translator.resolveDuplicates: dups = Translator.Duplicates() is a new tuple
\* of the two default set objects, which every call shares and adds to.
resolveDuplicates(t, sharedById, sharedByContents) ==
    rdLoop([msgs |-> t.m_messages, i |-> 0, id_refs |-> {}, content_refs |-> {},
            byId |-> sharedById, byContents |-> sharedByContents,
            m_indexOk |-> t.m_indexOk])

\* Translator.reportDuplicates(dupes, fileName, verbose): with verbose it reads
\* self.message(i) for every reported position; a position outside the store
\* raises IndexError.  Without verbose, or with nothing reported, it reads none.
reportDuplicates(t, dupes, verbose) ==
    [raised |-> /\ verbose
                /\ \E p \in dupes.byId \cup dupes.byContents :
                       p \notin 0..(Len(t.m_messages) - 1)]

(***************************************************************************)
(* numerus.py: the plural rule table.  A language or territory is the name *)
(* of its QLocale enumerator; a rule program is a sequence of bytes, and   *)
(* a | of two opcodes with no bit in common is their sum.                  *)
(* The forms and languages of an entry stand in the table under the names  *)
(* the source gives them.  englishStyleLanguages ends with Nahuatl, which  *)
(* the source appends where the Qt in use knows that language.             *)
(***************************************************************************)
Q_EQ == 1
Q_LT == 2
Q_LEQ == 3
Q_BETWEEN == 4
Q_NOT == 8
Q_MOD_10 == 16
Q_MOD_100 == 32
Q_LEAD_1000 == 64
Q_AND == 253
Q_OR == 254
Q_NEWRULE == 255
Q_OP_MASK == 7
Q_NEQ == Q_NOT + Q_EQ
Q_GT == Q_NOT + Q_LEQ
Q_GEQ == Q_NOT + Q_LT
Q_NOT_BETWEEN == Q_NOT + Q_BETWEEN

englishStyleRules ==
    <<Q_EQ, 1>>
frenchStyleRules ==
    <<Q_LEQ, 1>>
latvianRules ==
    <<Q_MOD_10 + Q_EQ, 1, Q_AND, Q_MOD_100 + Q_NEQ, 11, Q_NEWRULE,
      Q_NEQ, 0>>
icelandicRules ==
    <<Q_MOD_10 + Q_EQ, 1, Q_AND, Q_MOD_100 + Q_NEQ, 11>>
irishStyleRules ==
    <<Q_EQ, 1, Q_NEWRULE,
      Q_EQ, 2>>
gaelicStyleRules ==
    <<Q_EQ, 1, Q_OR, Q_EQ, 11, Q_NEWRULE,
      Q_EQ, 2, Q_OR, Q_EQ, 12, Q_NEWRULE,
      Q_BETWEEN, 3, 19>>
slovakStyleRules ==
    <<Q_EQ, 1, Q_NEWRULE,
      Q_BETWEEN, 2, 4>>
macedonianRules ==
    <<Q_MOD_10 + Q_EQ, 1, Q_NEWRULE,
      Q_MOD_10 + Q_EQ, 2>>
lithuanianRules ==
    <<Q_MOD_10 + Q_EQ, 1, Q_AND, Q_MOD_100 + Q_NEQ, 11, Q_NEWRULE,
      Q_MOD_10 + Q_NEQ, 0, Q_AND, Q_MOD_100 + Q_NOT_BETWEEN, 10, 19>>
russianStyleRules ==
    <<Q_MOD_10 + Q_EQ, 1, Q_AND, Q_MOD_100 + Q_NEQ, 11, Q_NEWRULE,
      Q_MOD_10 + Q_BETWEEN, 2, 4, Q_AND, Q_MOD_100 + Q_NOT_BETWEEN, 10, 19>>
polishRules ==
    <<Q_EQ, 1, Q_NEWRULE,
      Q_MOD_10 + Q_BETWEEN, 2, 4, Q_AND, Q_MOD_100 + Q_NOT_BETWEEN, 10, 19>>
romanianRules ==
    <<Q_EQ, 1, Q_NEWRULE,
      Q_EQ, 0, Q_OR, Q_MOD_100 + Q_BETWEEN, 1, 19>>
slovenianRules ==
    <<Q_MOD_100 + Q_EQ, 1, Q_NEWRULE,
      Q_MOD_100 + Q_EQ, 2, Q_NEWRULE,
      Q_MOD_100 + Q_BETWEEN, 3, 4>>
malteseRules ==
    <<Q_EQ, 1, Q_NEWRULE,
      Q_EQ, 0, Q_OR, Q_MOD_100 + Q_BETWEEN, 1, 10, Q_NEWRULE,
      Q_MOD_100 + Q_BETWEEN, 11, 19>>
welshRules ==
    <<Q_EQ, 0, Q_NEWRULE,
      Q_EQ, 1, Q_NEWRULE,
      Q_BETWEEN, 2, 5, Q_NEWRULE,
      Q_EQ, 6>>
arabicRules ==
    <<Q_EQ, 0, Q_NEWRULE,
      Q_EQ, 1, Q_NEWRULE,
      Q_EQ, 2, Q_NEWRULE,
      Q_MOD_100 + Q_BETWEEN, 3, 10, Q_NEWRULE,
      Q_MOD_100 + Q_GEQ, 11>>
tagalogRules ==
    <<Q_LEQ, 1, Q_NEWRULE,
      Q_MOD_10 + Q_EQ, 4, Q_OR, Q_MOD_10 + Q_EQ, 6, Q_OR, Q_MOD_10 + Q_EQ, 9>>

numerusTable ==
    <<
      [rules |-> <<>>, forms |->
          \* japaneseStyleForms
          <<"Universal Form">>,
       languages |->
          \* japaneseStyleLanguages
          <<"Bislama", "Burmese", "Chinese", "Dzongkha", "Fijian", "Guarani",
          "Hungarian", "Indonesian", "Japanese", "Javanese", "Korean",
          "Malay", "NauruLanguage", "Oromo", "Persian", "Sundanese", "Tatar",
          "Thai", "Tibetan", "Turkish", "Vietnamese", "Yoruba", "Zhuang">>, countries |-> <<>>,
       gettextRules |-> "nplurals=1; plural=0;"],
      [rules |-> englishStyleRules, forms |->
          \* englishStyleForms
          <<"Singular", "Plural">>,
       languages |->
          \* englishStyleLanguages
          <<"Abkhazian", "Afar", "Afrikaans", "Albanian", "Amharic",
          "Assamese", "Aymara", "Azerbaijani", "Bashkir", "Basque",
          "Bengali", "Bulgarian", "Catalan", "Cornish", "Corsican", "Danish",
          "Dutch", "English", "Esperanto", "Estonian", "Faroese", "Finnish",
          "Friulian", "WesternFrisian", "Galician", "Georgian", "German",
          "Greek", "Greenlandic", "Gujarati", "Hausa", "Hebrew", "Hindi",
          "Interlingua", "Interlingue", "Italian", "Kannada", "Kashmiri",
          "Kazakh", "Khmer", "Kinyarwanda", "Kirghiz", "Kurdish", "Lao",
          "Latin", "Lingala", "Luxembourgish", "Malagasy", "Malayalam",
          "Marathi", "Mongolian", "Nepali", "NorthernSotho",
          "NorwegianBokmal", "NorwegianNynorsk", "Occitan", "Oriya",
          "Pashto", "Portuguese", "Punjabi", "Quechua", "Romansh", "Rundi",
          "Shona", "Sindhi", "Sinhala", "Somali", "SouthernSotho", "Spanish",
          "Swahili", "Swati", "Swedish", "Tajik", "Tamil", "Telugu",
          "Tongan", "Tsonga", "Tswana", "Turkmen", "Uigur", "Urdu", "Uzbek",
          "Volapuk", "Wolof", "Xhosa", "Yiddish", "Zulu", "Nahuatl">>, countries |-> <<>>,
       gettextRules |-> "nplurals=2; plural=(n != 1);"],
      [rules |-> frenchStyleRules, forms |->
          \* frenchStyleForms
          <<"Singular", "Plural">>,
       languages |->
          \* frenchStyleLanguages
          <<"Armenian", "Breton", "French", "Portuguese", "Filipino",
          "Tigrinya", "Walloon">>, countries |->
          \* frenchStyleCountries
          <<"AnyCountry", "AnyCountry", "AnyCountry", "Brazil", "AnyCountry",
          "AnyCountry", "AnyCountry">>,
       gettextRules |-> "nplurals=2; plural=(n > 1);"],
      [rules |-> latvianRules, forms |->
          \* latvianForms
          <<"Singular", "Plural", "Nullar">>,
       languages |->
          \* latvianLanguage
          <<"Latvian">>, countries |-> <<>>,
       gettextRules |-> "nplurals=3; plural=(n%10==1 && n%100!=11 ? 0 : n != 0 ? 1 : 2);"],
      [rules |-> icelandicRules, forms |->
          \* icelandicForms
          <<"Singular", "Plural">>,
       languages |->
          \* icelandicLanguage
          <<"Icelandic">>, countries |-> <<>>,
       gettextRules |-> "nplurals=2; plural=(n%10==1 && n%100!=11 ? 0 : 1);"],
      [rules |-> irishStyleRules, forms |->
          \* irishStyleForms
          <<"Singular", "Dual", "Plural">>,
       languages |->
          \* irishStyleLanguages
          <<"Divehi", "Inuktitut", "Inupiak", "Irish", "Manx", "Maori",
          "NorthernSami", "Samoan", "Sanskrit">>, countries |-> <<>>,
       gettextRules |-> "nplurals=3; plural=(n==1 ? 0 : n==2 ? 1 : 2);"],
      [rules |-> gaelicStyleRules, forms |->
          \* gaelicStyleForms
          <<"1/11", "2/12", "Few", "Many">>,
       languages |->
          \* gaelicStyleLanguages
          <<"Gaelic">>, countries |-> <<>>,
       gettextRules |-> "nplurals=4; plural=(n==1 || n==11) ? 0 : (n==2 || n==12) ? 1 : (n > 2 && n < 20) ? 2 : 3;"],
      [rules |-> slovakStyleRules, forms |->
          \* slovakStyleForms
          <<"Singular", "Paucal", "Plural">>,
       languages |->
          \* slovakStyleLanguages
          <<"Slovak", "Czech">>, countries |-> <<>>,
       gettextRules |-> "nplurals=3; plural=((n==1) ? 0 : (n>=2 && n<=4) ? 1 : 2);"],
      [rules |-> macedonianRules, forms |->
          \* macedonianForms
          <<"Singular", "Dual", "Plural">>,
       languages |->
          \* macedonianLanguage
          <<"Macedonian">>, countries |-> <<>>,
       gettextRules |-> "nplurals=3; plural=(n%100==1 ? 0 : n%100==2 ? 1 : 2);"],
      [rules |-> lithuanianRules, forms |->
          \* lithuanianForms
          <<"Singular", "Paucal", "Plural">>,
       languages |->
          \* lithuanianLanguage
          <<"Lithuanian">>, countries |-> <<>>,
       gettextRules |-> "nplurals=3; plural=(n%10==1 && n%100!=11 ? 0 : n%10>=2 && (n%100<10 || n%100>=20) ? 1 : 2);"],
      [rules |-> russianStyleRules, forms |->
          \* russianStyleForms
          <<"Singular", "Dual", "Plural">>,
       languages |->
          \* russianStyleLanguages
          <<"Bosnian", "Belarusian", "Croatian", "Russian", "Serbian",
          "Ukrainian">>, countries |-> <<>>,
       gettextRules |-> "nplurals=3; plural=(n%10==1 && n%100!=11 ? 0 : n%10>=2 && n%10<=4 && (n%100<10 || n%100>=20) ? 1 : 2);"],
      [rules |-> polishRules, forms |->
          \* polishForms
          <<"Singular", "Paucal", "Plural">>,
       languages |->
          \* polishLanguage
          <<"Polish">>, countries |-> <<>>,
       gettextRules |-> "nplurals=3; plural=(n==1 ? 0 : n%10>=2 && n%10<=4 && (n%100<10 || n%100>=20) ? 1 : 2);"],
      [rules |-> romanianRules, forms |->
          \* romanianForms
          <<"Singular", "Paucal", "Plural">>,
       languages |->
          \* romanianLanguages
          <<"Romanian">>, countries |-> <<>>,
       gettextRules |-> "nplurals=3; plural=(n==1 ? 0 : (n==0 || (n%100 > 0 && n%100 < 20)) ? 1 : 2);"],
      [rules |-> slovenianRules, forms |->
          \* slovenianForms
          <<"Singular", "Dual", "Trial", "Plural">>,
       languages |->
          \* slovenianLanguage
          <<"Slovenian">>, countries |-> <<>>,
       gettextRules |-> "nplurals=4; plural=(n%100==1 ? 0 : n%100==2 ? 1 : n%100==3 || n%100==4 ? 2 : 3);"],
      [rules |-> malteseRules, forms |->
          \* malteseForms
          <<"Singular", "Paucal", "Greater Paucal", "Plural">>,
       languages |->
          \* malteseLanguage
          <<"Maltese">>, countries |-> <<>>,
       gettextRules |-> "nplurals=4; plural=(n==1 ? 0 : (n==0 || (n%100>=1 && n%100<=10)) ? 1 : (n%100>=11 && n%100<=19) ? 2 : 3);"],
      [rules |-> welshRules, forms |->
          \* welshForms
          <<"Nullar", "Singular", "Dual", "Sexal", "Plural">>,
       languages |->
          \* welshLanguage
          <<"Welsh">>, countries |-> <<>>,
       gettextRules |-> "nplurals=5; plural=(n==0 ? 0 : n==1 ? 1 : (n>=2 && n<=5) ? 2 : n==6 ? 3 : 4);"],
      [rules |-> arabicRules, forms |->
          \* arabicForms
          <<"Nullar", "Singular", "Dual", "Minority Plural", "Plural",
          "Plural (100-102, ...)">>,
       languages |->
          \* arabicLanguage
          <<"Arabic">>, countries |-> <<>>,
       gettextRules |-> "nplurals=6; plural=(n==0 ? 0 : n==1 ? 1 : n==2 ? 2 : (n%100>=3 && n%100<=10) ? 3 : n%100>=11 ? 4 : 5);"],
      [rules |-> tagalogRules, forms |->
          \* tagalogForms
          <<"Singular", "Plural (consonant-ended)", "Plural (vowel-ended)">>,
       languages |->
          \* tagalogLanguage
          <<"Filipino">>, countries |-> <<>>,
       gettextRules |-> "nplurals=3; plural=(n==1 ? 0 : (n%10==4 || n%10==6 || n%10== 9) ? 1 : 2);"]
    >>

\* The test of getNumerusInfo's scan: languages[j] is the language and the
\* country matches.
NumerusMatches(entry, j, language, country) ==
    /\ entry.languages[j] = language
    /\ \/ (entry.countries = <<>> /\ country = "AnyCountry")
       \/ (entry.countries # <<>> /\ entry.countries[j] = country)

\* The least member of a non-empty set of numbers.
Least(S) == CHOOSE e \in S : \A f \in S : e <= f

\* The entries of table that hold language with a matching country.
NumerusHits(table, language, country) ==
    {e \in 1..Len(table) :
        \E j \in 1..Len(table[e].languages) :
            NumerusMatches(table[e], j, language, country)}

NumerusFound(entry) ==
    [rules |-> entry.rules, forms |-> entry.forms,
     gettextRules |-> entry.gettextRules, ok |-> TRUE]

\* The loop of getNumerusInfo with the scan for AnyCountry left out.
NumerusLookupOnce(table, first, again, country) ==
    IF first # {} THEN NumerusFound(table[Least(first)])
    ELSE [rules |-> <<>>, forms |-> <<>>, gettextRules |-> "", ok |-> FALSE]

\* The loop of getNumerusInfo over table: the scan for the country, and, when
\* that finds nothing and the country is not AnyCountry, the scan for
\* AnyCountry.
NumerusLookup(table, first, again, country) ==
    IF first # {} THEN NumerusFound(table[Least(first)])
    ELSE IF country # "AnyCountry" /\ again # {} THEN NumerusFound(table[Least(again)])
    ELSE [rules |-> <<>>, forms |-> <<>>, gettextRules |-> "", ok |-> FALSE]

NumerusIn(table, language, country) ==
    NumerusLookup(table, NumerusHits(table, language, country),
                  NumerusHits(table, language, "AnyCountry"), country)

\* getNumerusInfo(language, country) -> (rules, forms, gettextRules, ok)
getNumerusInfo(language, country) == NumerusIn(numerusTable, language, country)

(***************************************************************************)
(* The locale registry (Qt's QLocale) as languageAndTerritory calls it,    *)
(* for the language codes the model draws.                                 *)
(***************************************************************************)
\* QLocale.codeToLanguage: an unknown or empty code is AnyLanguage.
codeToLanguage(code) ==
    CASE code = <<101, 110>> -> "English"        \* "en"
      [] code = <<112, 108>> -> "Polish"         \* "pl"
      [] code = <<106, 97>> -> "Japanese"        \* "ja"
      [] code = <<97, 114>> -> "Arabic"          \* "ar"
      [] code = <<112, 116>> -> "Portuguese"     \* "pt"
      [] code = <<67>> -> "C"                    \* "C"
      [] OTHER -> "AnyLanguage"

\* QLocale.codeToCountry
codeToCountry(code) ==
    CASE code = <<66, 82>> -> "Brazil"           \* "BR"
      [] code = <<80, 84>> -> "Portugal"         \* "PT"
      [] OTHER -> "AnyCountry"

\* QLocale(language).territory(): the default territory of a language.
defaultTerritory(language) ==
    CASE language = "English" -> "UnitedStates"
      [] language = "Polish" -> "Poland"
      [] language = "Japanese" -> "Japan"
      [] language = "Arabic" -> "Egypt"
      [] language = "Portuguese" -> "Brazil"
      [] OTHER -> "AnyCountry"

Underscore == 95

\* The position of the first '_' of a code, 0 if there is none.
FirstUnderscore(code) ==
    LET at == {i \in 1..Len(code) : code[i] = Underscore}
    IN  IF at = {} THEN 0 ELSE CHOOSE i \in at : \A j \in at : i <= j

\* Translator.languageAndTerritory(languageCode) -> <<language, territory>>
SplitAt(languageCode, u) ==
    IF u # 0
    THEN <<codeToLanguage(Take(languageCode, u - 1)), codeToCountry(Drop(languageCode, u))>>
    ELSE <<codeToLanguage(languageCode), defaultTerritory(codeToLanguage(languageCode))>>

languageAndTerritory(languageCode) == SplitAt(languageCode, FirstUnderscore(languageCode))

\* getNumerusInfo(*languageAndTerritory(languageCode))
numerusInfoOf(lc) == getNumerusInfo(lc[1], lc[2])

(***************************************************************************)
(* normalizeTranslations                                                   *)
(***************************************************************************)
\* [''] * n
RECURSIVE EmptyStrings(_)
EmptyStrings(n) == IF n <= 0 THEN <<>> ELSE <<EmptyStr>> \o EmptyStrings(n - 1)

\* num_plurals of normalizeTranslations
numPluralsOf(lc, info) == IF lc[1] # "C" /\ info.ok THEN Len(info.forms) ELSE 1

numPluralsFor(lc) == numPluralsOf(lc, numerusInfoOf(lc))

numPlurals(languageCode) == numPluralsFor(languageAndTerritory(languageCode))

\* normalizeOne with an off-by-one in the padding: one slot too few is added.
normalizeOnePadShort(msg, num_plurals) ==
    LET tlns == msg.m_translations
        ccnt == IF msg.m_plural THEN num_plurals ELSE 1
    IN  IF Len(tlns) < ccnt
        THEN [msg |-> [msg EXCEPT !.m_translations = tlns \o EmptyStrings(ccnt - Len(tlns) - 1)],
              truncated |-> FALSE]
        ELSE IF Len(tlns) > ccnt
        THEN [msg |-> [msg EXCEPT !.m_translations = Take(tlns, ccnt)], truncated |-> TRUE]
        ELSE [msg |-> msg, truncated |-> FALSE]

\* normalizeOne with padding flagged as a truncation is.
normalizeOneFlagPad(msg, num_plurals) ==
    LET tlns == msg.m_translations
        ccnt == IF msg.m_plural THEN num_plurals ELSE 1
    IN  IF Len(tlns) < ccnt
        THEN [msg |-> [msg EXCEPT !.m_translations = tlns \o EmptyStrings(ccnt - Len(tlns))],
              truncated |-> TRUE]
        ELSE IF Len(tlns) > ccnt
        THEN [msg |-> [msg EXCEPT !.m_translations = Take(tlns, ccnt)], truncated |-> TRUE]
        ELSE [msg |-> msg, truncated |-> FALSE]

\* normalizeOne with the cut taken from the front: the last slots are kept.
normalizeOneKeepLast(msg, num_plurals) ==
    LET tlns == msg.m_translations
        ccnt == IF msg.m_plural THEN num_plurals ELSE 1
    IN  IF Len(tlns) < ccnt
        THEN [msg |-> [msg EXCEPT !.m_translations = tlns \o EmptyStrings(ccnt - Len(tlns))],
              truncated |-> FALSE]
        ELSE IF Len(tlns) > ccnt
        THEN [msg |-> [msg EXCEPT !.m_translations = Drop(tlns, Len(tlns) - ccnt)],
              truncated |-> TRUE]
        ELSE [msg |-> msg, truncated |-> FALSE]

\* The loop body for one entry: the entry afterwards, and whether it was cut.
normalizeOne(msg, num_plurals) ==
    LET tlns == msg.m_translations
        ccnt == IF msg.m_plural THEN num_plurals ELSE 1
    IN  IF Len(tlns) < ccnt
        THEN [msg |-> [msg EXCEPT !.m_translations = tlns \o EmptyStrings(ccnt - Len(tlns))],
              truncated |-> FALSE]
        ELSE IF Len(tlns) > ccnt
        THEN [msg |-> [msg EXCEPT !.m_translations =
                                      Take(tlns, Len(tlns) - (Len(tlns) - ccnt))],
              truncated |-> TRUE]
        ELSE [msg |-> msg, truncated |-> FALSE]

RemovedPluralForms ==
    <<"Removed plural forms as the target language has less forms.\nIf this sounds wrong, possibly the target language is not set or recognized.">>

\* Translator.normalizeTranslations(cd) -> [msgs, errors]
normalizeAll(msgs, num_plurals, errors) ==
    [msgs |-> [i \in 1..Len(msgs) |-> normalizeOne(msgs[i], num_plurals).msg],
     errors |-> IF \E i \in 1..Len(msgs) : normalizeOne(msgs[i], num_plurals).truncated
                THEN Append(errors, RemovedPluralForms) ELSE errors]

normalizeTranslations(msgs, languageCode, errors) ==
    normalizeAll(msgs, numPlurals(languageCode), errors)

(***************************************************************************)
(* qm.py: the writer.  Releaser collects ByteTranslatorMessages, squeeze   *)
(* lays them out and save writes the blocks.  An exception that leaves a   *)
(* function is the field raised of its result.  No dependency is ever set  *)
(* on the stores of the model, so the Dependencies block stays empty.      *)
(***************************************************************************)
magic ==
    <<60, 184, 100, 24, 202, 239, 156, 149, 205, 33, 28, 191, 96, 161, 189, 221>>

Tag_End == 1
Tag_SourceText16 == 2
Tag_Translation == 3
Tag_Context16 == 4
Tag_Obsolete1 == 5
Tag_SourceText == 6
Tag_Context == 7
Tag_Comment == 8
Tag_Obsolete2 == 9

Contexts == 47
Hashes == 66
Messages == 105
NumerusRules == 136
Dependencies == 150
Language == 167

NoPrefix == 0
Hash == 1
HashContext == 2
HashContextSourceText == 3
HashContextSourceTextComment == 4

Max(a, b) == IF a >= b THEN a ELSE b

ByteTranslatorMessage(context, sourceText, comment, translations) ==
    [m_context |-> context, m_sourceText |-> sourceText, m_comment |-> comment,
     m_translations |-> translations]

\* ByteTranslatorMessage.__lt__
ByteTranslatorMessageLess(a, b) ==
    IF a.m_context # b.m_context THEN SeqLess(a.m_context, b.m_context)
    ELSE IF a.m_sourceText # b.m_sourceText THEN SeqLess(a.m_sourceText, b.m_sourceText)
    ELSE SeqLess(a.m_comment, b.m_comment)

\* The messages left in the order of their insertion.
unsortedMessages(msgs) == msgs

\* sorted(self.m_messages): stable, each element goes behind those it is not
\* less than.
RECURSIVE sortedMessages(_)
sortedMessages(msgs) ==
    IF msgs = <<>> THEN <<>>
    ELSE LET front == sortedMessages(SubSeq(msgs, 1, Len(msgs) - 1))
             x == msgs[Len(msgs)]
             before == {i \in 1..Len(front) : ByteTranslatorMessageLess(x, front[i])}
             at == IF before = {} THEN Len(front)
                   ELSE (CHOOSE i \in before : \A j \in before : i <= j) - 1
         IN  ListInsert(front, at, x)

\* sorted() of byte strings
RECURSIVE sortedBytes(_)
sortedBytes(items) ==
    IF items = <<>> THEN <<>>
    ELSE LET front == sortedBytes(SubSeq(items, 1, Len(items) - 1))
             x == items[Len(items)]
             before == {i \in 1..Len(front) : SeqLess(x, front[i])}
             at == IF before = {} THEN Len(front)
                   ELSE (CHOOSE i \in before : \A j \in before : i <= j) - 1
         IN  ListInsert(front, at, x)

\* Releaser.msgHash
msgHash(msg) == elfHash(msg.m_sourceText \o msg.m_comment)

\* Releaser.commonPrefix
commonPrefix(m1, m2) ==
    IF msgHash(m1) # msgHash(m2) THEN NoPrefix
    ELSE IF m1.m_context # m2.m_context THEN Hash
    ELSE IF m1.m_sourceText # m2.m_sourceText THEN HashContext
    ELSE IF m1.m_comment # m2.m_comment THEN HashContextSourceText
    ELSE HashContextSourceTextComment

\* Releaser.writeMessage
writeMessage(msg, mode, prefix) ==
    LET p == IF mode = "SaveEverything" THEN HashContextSourceTextComment ELSE prefix
        translations ==
            Flatten([i \in 1..Len(msg.m_translations) |->
                        uint8(Tag_Translation)
                        \o uint32(Len(Utf16BE(msg.m_translations[i])))
                        \o Utf16BE(msg.m_translations[i])])
        comment == uint8(Tag_Comment) \o uint32(Len(msg.m_comment)) \o msg.m_comment
        sourceText ==
            uint8(Tag_SourceText) \o uint32(Len(msg.m_sourceText)) \o msg.m_sourceText
        context == uint8(Tag_Context) \o uint32(Len(msg.m_context)) \o msg.m_context
    IN  translations
        \o (IF p = HashContextSourceTextComment THEN comment \o sourceText \o context
            ELSE IF p = HashContextSourceText THEN sourceText \o context
            ELSE IF p = HashContext THEN context
            ELSE <<>>)
        \o uint8(Tag_End)

\* The loop of squeeze over the sorted messages.  Prefix(n) raises ValueError
\* for an n that is no member of the enumeration; uint32(k.h) raises
\* OverflowError for a hash of 2^32 or more, when the offsets are joined.
RECURSIVE squeezeLoop(_, _, _, _, _, _)
squeezeStep(messages, i, prev_prefix, next_prefix, messageArray, offsets, mode) ==
    IF Max(prev_prefix, next_prefix + 1) > HashContextSourceTextComment
    THEN [raised |-> TRUE, m_messageArray |-> messageArray, offsets |-> offsets]
    ELSE squeezeLoop(messages, i + 1, next_prefix,
                     messageArray \o writeMessage(messages[i], mode,
                                                  Max(prev_prefix, next_prefix + 1)),
                     Append(offsets, [h |-> msgHash(messages[i]), o |-> Len(messageArray)]),
                     mode)

squeezeLoop(messages, i, next_prefix, messageArray, offsets, mode) ==
    IF i > Len(messages)
    THEN [raised |-> FALSE, m_messageArray |-> messageArray, offsets |-> offsets]
    ELSE squeezeStep(messages, i, next_prefix,
                     IF i = Len(messages) THEN NoPrefix
                     ELSE commonPrefix(messages[i], messages[i + 1]),
                     messageArray, offsets, mode)

\* The size of the context hash table for a number of contexts.
hTableSize(n) ==
    IF n < 60 THEN 151
    ELSE IF n < 200 THEN 503
    ELSE IF n < 750 THEN 1511
    ELSE IF n < 2500 THEN 5003
    ELSE IF n < 10000 THEN 15013
    ELSE (3 * n) \div 2

\* The stripped-mode branch of squeeze up to the size of the table, for
\* messages of n distinct contexts: context_set[it.context()] += 1 on the empty
\* dict raises KeyError at the first message, so the staircase is reached with
\* an empty context_set only.
contextTableSize(n) ==
    IF n > 0 THEN [raised |-> TRUE, h_table_size |-> 0]
    ELSE [raised |-> FALSE, h_table_size |-> hTableSize(n)]

\* What squeeze makes of the loop's result.  In SaveStripped mode
\* context_set[...] += 1 on the empty dict raises KeyError at the first
\* message; with no message the context array is the table size, an empty
\* table and the unused entry 0 of the pool.
squeezeArrays(loop, messages, mode) ==
    LET overflow == \E k \in 1..Len(loop.offsets) : loop.offsets[k].h[1] # 0
        raised == loop.raised \/ overflow \/ (mode = "SaveStripped" /\ messages # <<>>)
    IN  [raised |-> raised,
         m_messageArray |-> loop.m_messageArray,
         m_offsetArray |->
             IF loop.raised \/ overflow THEN <<>>
             ELSE Flatten(sortedBytes([k \in 1..Len(loop.offsets) |->
                             uint32(loop.offsets[k].h[2]) \o uint32(loop.offsets[k].o)])),
         m_contextArray |->
             IF mode = "SaveStripped" /\ ~raised
             THEN uint16(hTableSize(0)) \o [k \in 1..(2 * hTableSize(0) + 2) |-> 0]
             ELSE <<>>]

\* Releaser.squeeze(mode) on the collected messages.
squeeze(messages, mode) ==
    IF messages = <<>> /\ mode = "SaveEverything"
    THEN [raised |-> FALSE, m_messageArray |-> <<>>, m_offsetArray |-> <<>>,
          m_contextArray |-> <<>>]
    ELSE squeezeArrays(squeezeLoop(sortedMessages(messages), 1, NoPrefix, <<>>, <<>>, mode),
                       messages, mode)

\* One block of the file: tag, length, payload.
Block(tag, payload) == uint8(tag) \o uint32(Len(payload)) \o payload

\* Releaser.save(s): what is written to s.
Releaser_save(language, squeezed, numerusRules) ==
    magic
    \o (IF language # EmptyStr THEN Block(Language, originalBytes(language)) ELSE <<>>)
    \o (IF squeezed.m_offsetArray # <<>> THEN Block(Hashes, squeezed.m_offsetArray) ELSE <<>>)
    \o (IF squeezed.m_messageArray # <<>> THEN Block(Messages, squeezed.m_messageArray) ELSE <<>>)
    \o (IF squeezed.m_contextArray # <<>> THEN Block(Contexts, squeezed.m_contextArray) ELSE <<>>)
    \o (IF numerusRules # <<>> THEN Block(NumerusRules, numerusRules) ELSE <<>>)

\* Releaser.insert(message, translations, forceComment): m_messages afterwards
Releaser_insert(rel, message, translations, forceComment) ==
    LET b_msg == ByteTranslatorMessage(originalBytes(message.m_context),
                                       originalBytes(message.m_sourcetext),
                                       originalBytes(message.m_comment), translations)
        b_msg2 == ByteTranslatorMessage(b_msg.m_context, b_msg.m_sourceText, <<>>,
                                        b_msg.m_translations)
    IN  IF ~forceComment /\ b_msg2 \notin Range(rel)
        THEN Append(rel, b_msg2)
        ELSE Append(rel, b_msg)

\* Releaser.insertIdBased(message, translations): m_messages afterwards
insertIdBased(rel, message, translations) ==
    Append(rel, ByteTranslatorMessage(<<>>, originalBytes(message.m_id), <<>>, translations))

\* containsStripped(translator, msg)
containsStripped(msgs, msg) ==
    \E i \in 1..Len(msgs) :
        /\ msgs[i].m_sourcetext = msg.m_sourcetext
        /\ msgs[i].m_context = msg.m_context
        /\ msgs[i].m_comment = EmptyStr

\* The loop of saveQM with Obsolete entries taken as Finished ones are.
RECURSIVE saveLoopKeepObsolete(_, _, _, _)
saveLoopKeepObsolete(msgs, i, c, acc) ==
    IF i > Len(msgs) THEN acc
    ELSE
      LET msg == msgs[i]
          typ == msg.m_type
          translations ==
              IF typ = "Unfinished" /\ (c.m_idBased \/ c.m_unTrPrefix # EmptyStr)
              THEN [j \in 1..Len(msg.m_translations) |->
                       IF msg.m_translations[j] = EmptyStr
                       THEN c.m_unTrPrefix \o msg.m_sourcetext
                       ELSE msg.m_translations[j]]
              ELSE msg.m_translations
          force_comment == \/ msg.m_comment = EmptyStr
                           \/ msg.m_context = EmptyStr
                           \/ containsStripped(msgs, msg)
          counted == IF typ = "Unfinished"
                     THEN [acc EXCEPT !.unfinished = @ + 1]
                     ELSE [acc EXCEPT !.finished = @ + 1]
      IN  IF typ \in {"Vanished"} THEN saveLoopKeepObsolete(msgs, i + 1, c, acc)
          ELSE IF c.m_idBased /\ msg.m_id = EmptyStr
          THEN saveLoopKeepObsolete(msgs, i + 1, c, [acc EXCEPT !.missing_ids = @ + 1])
          ELSE IF typ = "Unfinished" /\ translation(msg) = EmptyStr
                  /\ ~c.m_idBased /\ c.m_unTrPrefix = EmptyStr
          THEN saveLoopKeepObsolete(msgs, i + 1, c, [acc EXCEPT !.untranslated = @ + 1])
          ELSE IF typ = "Unfinished" /\ c.m_ignoreUnfinished
          THEN saveLoopKeepObsolete(msgs, i + 1, c, acc)
          ELSE IF c.m_idBased
          THEN saveLoopKeepObsolete(msgs, i + 1, c,
                        [counted EXCEPT
                            !.dropped_data =
                                IF msg.m_context # EmptyStr \/ msg.m_comment # EmptyStr
                                THEN @ + 1 ELSE @,
                            !.rel = insertIdBased(@, msg, translations)])
          ELSE saveLoopKeepObsolete(msgs, i + 1, c,
                        [counted EXCEPT
                            !.rel = Releaser_insert(@, msg, translations, force_comment)])

\* The loop of saveQM over the store: the releaser's messages and the counters.
RECURSIVE saveLoop(_, _, _, _)
saveLoop(msgs, i, c, acc) ==
    IF i > Len(msgs) THEN acc
    ELSE
      LET msg == msgs[i]
          typ == msg.m_type
          translations ==
              IF typ = "Unfinished" /\ (c.m_idBased \/ c.m_unTrPrefix # EmptyStr)
              THEN [j \in 1..Len(msg.m_translations) |->
                       IF msg.m_translations[j] = EmptyStr
                       THEN c.m_unTrPrefix \o msg.m_sourcetext
                       ELSE msg.m_translations[j]]
              ELSE msg.m_translations
          force_comment == \/ msg.m_comment = EmptyStr
                           \/ msg.m_context = EmptyStr
                           \/ containsStripped(msgs, msg)
          counted == IF typ = "Unfinished"
                     THEN [acc EXCEPT !.unfinished = @ + 1]
                     ELSE [acc EXCEPT !.finished = @ + 1]
      IN  IF typ \in {"Obsolete", "Vanished"} THEN saveLoop(msgs, i + 1, c, acc)
          ELSE IF c.m_idBased /\ msg.m_id = EmptyStr
          THEN saveLoop(msgs, i + 1, c, [acc EXCEPT !.missing_ids = @ + 1])
          ELSE IF typ = "Unfinished" /\ translation(msg) = EmptyStr
                  /\ ~c.m_idBased /\ c.m_unTrPrefix = EmptyStr
          THEN saveLoop(msgs, i + 1, c, [acc EXCEPT !.untranslated = @ + 1])
          ELSE IF typ = "Unfinished" /\ c.m_ignoreUnfinished
          THEN saveLoop(msgs, i + 1, c, acc)
          ELSE IF c.m_idBased
          THEN saveLoop(msgs, i + 1, c,
                        [counted EXCEPT
                            !.dropped_data =
                                IF msg.m_context # EmptyStr \/ msg.m_comment # EmptyStr
                                THEN @ + 1 ELSE @,
                            !.rel = insertIdBased(@, msg, translations)])
          ELSE saveLoop(msgs, i + 1, c,
                        [counted EXCEPT
                            !.rel = Releaser_insert(@, msg, translations, force_comment)])

\* The diagnostics of saveQM about what the loop dropped.  The messages
\* appended to the sink are kept as the untranslated text and the numbers put
\* into it.
reportDropped(acc, errors) ==
    (IF acc.missing_ids # 0
     THEN Append(errors, <<"Dropped %n message(s) which had no ID.", acc.missing_ids>>)
     ELSE errors)
    \o (IF acc.dropped_data # 0
        THEN <<<<"Excess context/disambiguation dropped from %n message(s).",
                 acc.dropped_data>>>>
        ELSE <<>>)

\* The diagnostics of saveQM in verbose mode.
reportGenerated(acc, c, errors) ==
    IF c.m_verbose
    THEN Append(errors, <<"    Generated %n translation(s) (%1 finished and %2 unfinished)",
                          acc.finished + acc.unfinished, acc.finished, acc.unfinished>>)
         \o (IF acc.untranslated # 0
             THEN <<<<"    Ignored %n untranslated source text(s)", acc.untranslated>>>>
             ELSE <<>>)
    ELSE errors

\* The end of saveQM: an exception out of squeeze leaves before anything is
\* written.
saveQMWrite(acc, squeezed, language, info, c, errors) ==
    IF squeezed.raised
    THEN [raised |-> TRUE, ret |-> FALSE, dev |-> <<>>, errors |-> errors]
    ELSE [raised |-> FALSE, ret |-> TRUE,
          dev |-> Releaser_save(language, squeezed, IF info.ok THEN info.rules ELSE <<>>),
          errors |-> reportGenerated(acc, c, errors)]

saveQMSqueeze(acc, language, info, c, errors) ==
    saveQMWrite(acc, squeeze(acc.rel, c.m_saveMode), language, info, c,
                reportDropped(acc, errors))

\* saveQM(translator, dev, cd) -> [raised, ret, dev, errors]: whether an
\* exception left the call, the value returned, the bytes written and the sink.
saveQM(msgs, language, c, errors) ==
    saveQMSqueeze(saveLoop(msgs, 1, c,
                           [finished |-> 0, unfinished |-> 0, untranslated |-> 0,
                            missing_ids |-> 0, dropped_data |-> 0, rel |-> <<>>]),
                  language, numerusInfoOf(languageAndTerritory(language)), c, errors)

(***************************************************************************)
(* qm.py: the reader.                                                      *)
(***************************************************************************)
MagicMissing == <<"QM-Format error: magic marker missing">>
FormatError == <<"QM-Format error">>
InvalidUtf8 == <<"Error: File contains invalid UTF-8 sequences.">>

\* data.startswith(prefix)
startswith(data, prefix) == Take(data, Len(prefix)) = prefix

\* The block loop of loadQM.  st holds the locals data, offset_array,
\* offset_length, message_array, utf8_fail and ok, the language of the
\* translator, and any_fail: whether some fromBytes call so far has failed.
\* The dependencies a Dependencies block sets are not part of the store of the
\* model.
RECURSIVE loadBlocks(_)
loadBlocks(st) ==
    IF Len(st.data) <= 4 THEN st
    ELSE
      LET tag == read8(st.data)
          block_length == read32(Drop(st.data, 1))
          data == Drop(st.data, 5)
          text == fromBytes(data, block_length)
          st1 == CASE tag = Hashes ->
                        [st EXCEPT !.offset_array = data, !.offset_length = block_length]
                   [] tag = Messages -> [st EXCEPT !.message_array = data]
                   [] tag = Language ->
                        [st EXCEPT !.language = text.out, !.utf8_fail = text.utf8_fail,
                                   !.any_fail = @ \/ text.utf8_fail]
                   [] OTHER -> st
      IN  IF tag = 0 \/ block_length = 0 THEN [st EXCEPT !.data = data]
          ELSE IF block_length > Len(data) THEN [st EXCEPT !.data = data, !.ok = FALSE]
          ELSE loadBlocks([st1 EXCEPT !.data = Drop(data, block_length)])

\* A UTF-16 code unit that is half of a surrogate pair.
IsSurrogate(u) == u >= 55296 /\ u <= 57343

\* The translation payload turned into text: on a little-endian host the bytes
\* of each pair are swapped first, then the bytes are decoded as UTF-16LE.  An
\* odd number of bytes raises (IndexError in the swap, UnicodeDecodeError in
\* the decoder), and so does a surrogate that stands alone; a surrogate pair,
\* which would decode to one code point, is not drawn by the model and taken
\* as raising too.
decodeTranslation(string_bytes, byteOrder) ==
    LET n == Len(string_bytes) \div 2
        swapped == [i \in 1..(2 * n) |->
                       IF i % 2 = 1 THEN string_bytes[i + 1] ELSE string_bytes[i - 1]]
        le == IF byteOrder = "LittleEndian" THEN swapped ELSE string_bytes
        out == [k \in 1..n |-> le[2 * k - 1] + 256 * le[2 * k]]
    IN  IF Len(string_bytes) % 2 = 1 THEN [ok |-> FALSE, out |-> <<>>]
        ELSE IF \E k \in 1..n : IsSurrogate(out[k]) THEN [ok |-> FALSE, out |-> <<>>]
        ELSE [ok |-> TRUE, out |-> out]

\* The tag loop over one record.  r holds m, context, source_text, comment,
\* translations, utf8_fail and any_fail; status is "ok" while the loop runs
\* and when it ends, "error" at the return after the odd length, "raised" when
\* an exception leaves.
RECURSIVE readRecord(_, _)
readRecord(r, byteOrder) ==
    IF r.m = <<>> THEN r
    ELSE
      LET tag == read8(r.m)
          m == Drop(r.m, 1)
          length == read32(m)
          signed == read32Signed(m)
          m4 == Drop(m, 4)
          text == fromBytes(m4, length)
          rest == Drop(m4, length)
          string == decodeTranslation(Take(m4, signed), byteOrder)
      IN  CASE tag = Tag_End -> [r EXCEPT !.m = m]
            [] tag = Tag_Translation ->
                 IF signed < -1 THEN [r EXCEPT !.status = "raised"]
                 ELSE IF signed # -1 /\ signed % 2 = 1 THEN [r EXCEPT !.status = "error"]
                 ELSE IF signed = -1 THEN readRecord([r EXCEPT !.m = m4], byteOrder)
                 ELSE IF ~string.ok THEN [r EXCEPT !.status = "raised"]
                 ELSE readRecord([r EXCEPT !.m = Drop(m4, signed),
                                           !.translations = Append(@, string.out)],
                                 byteOrder)
            [] tag = Tag_Obsolete1 -> readRecord([r EXCEPT !.m = m4], byteOrder)
            [] tag = Tag_SourceText ->
                 readRecord([r EXCEPT !.m = rest, !.source_text = text.out,
                                      !.utf8_fail = text.utf8_fail,
                                      !.any_fail = @ \/ text.utf8_fail], byteOrder)
            [] tag = Tag_Context ->
                 readRecord([r EXCEPT !.m = rest, !.context = text.out,
                                      !.utf8_fail = text.utf8_fail,
                                      !.any_fail = @ \/ text.utf8_fail], byteOrder)
            [] tag = Tag_Comment ->
                 readRecord([r EXCEPT !.m = rest, !.comment = text.out,
                                      !.utf8_fail = text.utf8_fail,
                                      !.any_fail = @ \/ text.utf8_fail], byteOrder)
            [] OTHER -> readRecord([r EXCEPT !.m = m], byteOrder)

\* "%n" in source_text
HasCountMarker(source_text) ==
    \E i \in 0..(Len(source_text) - 2) : SubSeq(source_text, i + 1, i + 2) = <<37, 110>>

\* The entry loadQM makes of a record.
recordMessage(r, guess_plurals) ==
    TranslatorMessage(EmptyStr, r.context, r.source_text, r.comment, r.translations,
                      "Finished",
                      \/ Len(r.translations) > 1
                      \/ (guess_plurals /\ HasCountMarker(r.source_text)))

\* The loop of loadQM over the offsets: each record is read and appended to
\* the translator before the next one is looked at.
RECURSIVE loadRecords(_, _)
loadRecordsAppend(s, r, byteOrder) ==
    IF r.status # "ok"
    THEN [s EXCEPT !.status = r.status, !.utf8_fail = r.utf8_fail,
                   !.any_fail = r.any_fail]
    ELSE loadRecords([s EXCEPT !.start = @ + 8,
                               !.tor = append(@, recordMessage(r, s.guess_plurals)),
                               !.utf8_fail = r.utf8_fail, !.any_fail = r.any_fail],
                     byteOrder)

loadRecords(s, byteOrder) ==
    IF s.start >= s.num_items * 8 THEN s
    ELSE loadRecordsAppend(
             s,
             readRecord([m |-> Drop(s.message_array,
                                    read32(Drop(s.offset_array, s.start + 4))),
                         context |-> EmptyStr, source_text |-> EmptyStr,
                         comment |-> EmptyStr, translations |-> <<>>,
                         utf8_fail |-> s.utf8_fail, any_fail |-> s.any_fail,
                         status |-> "ok"], byteOrder),
             byteOrder)

\* guess_plurals of loadQM
guessPlurals(info) == IF info.ok THEN Len(info.forms) = 1 ELSE TRUE

\* The end of loadQM, s the state the record loop has left.
loadQMReturn(s, st, errors) ==
    [raised |-> s.status = "raised",
     ret |-> s.status = "ok" /\ ~s.utf8_fail /\ st.ok,
     tor |-> s.tor,
     language |-> st.language,
     errors |-> IF s.status = "raised" THEN errors
                ELSE IF s.status = "error" THEN Append(errors, FormatError)
                ELSE IF s.utf8_fail THEN Append(errors, InvalidUtf8)
                ELSE errors,
     any_fail |-> s.any_fail]

\* loadQM after the block loop, st the state that loop has left.
loadQMRecords(t, st, errors, byteOrder) ==
    loadQMReturn(
        loadRecords([start |-> 0, num_items |-> st.offset_length \div 8,
                     offset_array |-> st.offset_array,
                     message_array |-> st.message_array, tor |-> t,
                     utf8_fail |-> st.utf8_fail, any_fail |-> st.any_fail,
                     guess_plurals |->
                         guessPlurals(numerusInfoOf(languageAndTerritory(st.language))),
                     status |-> "ok"], byteOrder),
        st, errors)

\* loadQM(translator, dev, cd) -> [raised, ret, tor, language, errors, any_fail]:
\* whether an exception left the call, the value returned, the translator's
\* store and language and the sink afterwards, and whether any text decoded
\* during the call was not valid UTF-8.
loadQM(t, language, data, errors, byteOrder) ==
    IF ~startswith(data, magic)
    THEN [raised |-> FALSE, ret |-> FALSE, tor |-> t, language |-> language,
          errors |-> Append(errors, MagicMissing), any_fail |-> FALSE]
    ELSE loadQMRecords(
             t,
             loadBlocks([data |-> Drop(data, Len(magic)), offset_array |-> <<>>,
                         offset_length |-> 0, message_array |-> <<>>,
                         language |-> language, utf8_fail |-> FALSE, ok |-> TRUE,
                         any_fail |-> FALSE]),
             errors, byteOrder)

(***************************************************************************)
(* The state every specification starts from: a new Translator, a new      *)
(* ConversionData, the class-level default sets empty, nothing written.    *)
(***************************************************************************)
\* ConversionData.__init__
NewConversionData ==
    [m_idBased |-> FALSE, m_unTrPrefix |-> EmptyStr, m_saveMode |-> "SaveEverything",
     m_ignoreUnfinished |-> FALSE, m_verbose |-> FALSE]

InitCommon ==
    /\ m_messages = <<>>
    /\ m_indexOk = TRUE
    /\ m_ctxCmtIdx = EmptyDict
    /\ m_idMsgIdx = EmptyDict
    /\ m_msgIdx = EmptyDict
    /\ m_language = EmptyStr
    /\ m_errors = <<>>
    /\ cd = NewConversionData
    /\ byId = {}
    /\ byContents = {}
    /\ dev = <<>>
    /\ last = [op |-> "init"]

(***************************************************************************)
(* SpecStore: the message store under append, find and resolveDuplicates,  *)
(* over a small universe of entries.                                       *)
(***************************************************************************)
MaxMsgs == 2

StoreIds == {EmptyStr, <<120>>, <<121>>}          \* "", "x", "y"
StoreSources == {<<115>>, <<116>>}                \* "s", "t"

\* Untranslated entries of every id and source text, a context comment (no id,
\* no source text), an entry known by its id alone, and two translated entries.
StoreMsgs ==
    {TranslatorMessage(id, <<99>>, src, EmptyStr, <<EmptyStr>>, "Finished", FALSE) :
        id \in StoreIds, src \in StoreSources}
    \cup {TranslatorMessage(id, <<99>>, EmptyStr, EmptyStr, <<EmptyStr>>, "Finished", FALSE) :
        id \in {EmptyStr, <<120>>}}
    \cup {TranslatorMessage(id, <<99>>, <<115>>, EmptyStr, <<<<117>>>>, "Finished", FALSE) :
        id \in {EmptyStr, <<120>>}}

InitStore == InitCommon /\ ByteOrder = "LittleEndian"

\* Translator(): a new store; the default sets of Duplicates are the class's.
StoreNew ==
    /\ m_messages # <<>>
    /\ SetTor(EmptyTor)
    /\ last' = [op |-> "Translator"]
    /\ UNCHANGED <<m_language, m_errors, cd, byId, byContents, dev, ByteOrder>>

StoreAppend ==
    \E msg \in StoreMsgs :
        /\ Len(m_messages) < MaxMsgs
        /\ SetTor(append(Tor, msg))
        /\ last' = [op |-> "append"]
        /\ UNCHANGED <<m_language, m_errors, cd, byId, byContents, dev, ByteOrder>>

\* Translator.insert(idx, msg) at any position of the store
StoreInsert ==
    /\ Len(m_messages) < MaxMsgs
    /\ \E msg \in StoreMsgs, idx \in 0..Len(m_messages) :
        /\ SetTor(insert(Tor, idx, msg))
        /\ last' = [op |-> "insert", arg |-> msg, idx |-> idx]
        /\ UNCHANGED <<m_language, m_errors, cd, byId, byContents, dev, ByteOrder>>

StoreFind ==
    \E msg \in StoreMsgs :
        /\ SetTor(ensureIndexed(Tor))
        /\ last' = [op |-> "find", arg |-> msg, ret |-> find(Tor, msg)]
        /\ UNCHANGED <<m_language, m_errors, cd, byId, byContents, dev, ByteOrder>>

StoreResolveDuplicates ==
    LET st == resolveDuplicates(Tor, byId, byContents)
    IN  /\ m_messages' = st.msgs
        /\ m_indexOk' = st.m_indexOk
        /\ byId' = st.byId
        /\ byContents' = st.byContents
        /\ last' = [op |-> "resolveDuplicates",
                    pre |-> m_messages,
                    again |-> (last.op = "resolveDuplicates"),
                    preErrors |-> m_errors,
                    ret |-> [byId |-> st.byId, byContents |-> st.byContents]]
        /\ UNCHANGED <<m_ctxCmtIdx, m_idMsgIdx, m_msgIdx, m_language, m_errors, cd,
                       dev, ByteOrder>>

NextStore ==
    StoreNew \/ StoreAppend \/ StoreInsert \/ StoreFind \/ StoreResolveDuplicates

SpecStore == InitStore /\ [][NextStore]_vars

(***************************************************************************)
(* Claims about the store.                                                 *)
(***************************************************************************)
\* C3: when resolveDuplicates is called twice in a row, the second call returns
\* an empty byId set and an empty byContents set and removes no entry.
C3_SecondCallReportsNothing ==
    (last.op = "resolveDuplicates" /\ last.again) =>
        /\ last.ret.byId = {}
        /\ last.ret.byContents = {}
        /\ m_messages = last.pre

\* Scenario B: the store held exactly two entries with the same non-empty id and
\* different source texts when resolveDuplicates was called.
ScenarioB ==
    /\ last.op = "resolveDuplicates"
    /\ Len(last.pre) = 2
    /\ last.pre[1].m_id # EmptyStr
    /\ last.pre[1].m_id = last.pre[2].m_id
    /\ last.pre[1].m_sourcetext # last.pre[2].m_sourcetext

\* C6: in Scenario B resolveDuplicates removes the later entry, reports exactly
\* one position in byId and none in byContents, the survivor keeps the
\* first-seen source text, and no error is appended.
C6_ScenarioB ==
    ScenarioB =>
        /\ Len(m_messages) = 1
        /\ m_messages[1].m_id = last.pre[1].m_id
        /\ m_messages[1].m_sourcetext = last.pre[1].m_sourcetext
        /\ Cardinality(last.ret.byId) = 1
        /\ last.ret.byContents = {}
        /\ m_errors = last.preErrors

\* The positions (from 0) of the stored entries with the id of msg.
PositionsWithId(msg) ==
    {p \in 0..(Len(m_messages) - 1) : m_messages[p + 1].m_id = msg.m_id}
\* The positions (from 0) of the stored entries with the content identity of msg.
PositionsWithContent(msg) ==
    {p \in 0..(Len(m_messages) - 1) : TMMKey(m_messages[p + 1]) = TMMKey(msg)}

\* C9: find(entry) with a non-empty id returns the position of a stored entry
\* with that id whenever one exists; when none has that id, it returns the
\* position of the content-identity match only if that entry has no id, and
\* not-found otherwise.
C9_FindByIdFirst ==
    (last.op = "find" /\ last.arg.m_id # EmptyStr) =>
        IF PositionsWithId(last.arg) # {}
        THEN last.ret \in PositionsWithId(last.arg)
        ELSE \/ last.ret = -1
             \/ /\ last.ret \in PositionsWithContent(last.arg)
                /\ m_messages[last.ret + 1].m_id = EmptyStr

\* C19: when the two entries of a store share content identity and exactly one
\* of them has an id, resolveDuplicates leaves one entry, the earlier one, and
\* it carries that id.
C19_IdPropagated ==
    (/\ last.op = "resolveDuplicates"
     /\ Len(last.pre) = 2
     /\ ContentPtrEq(last.pre, 0, 1)
     /\ (last.pre[1].m_id = EmptyStr) # (last.pre[2].m_id = EmptyStr))
    => /\ Len(m_messages) = 1
       /\ TMMKey(m_messages[1]) = TMMKey(last.pre[1])
       /\ m_messages[1].m_id = IF last.pre[1].m_id # EmptyStr THEN last.pre[1].m_id
                               ELSE last.pre[2].m_id

\* C20: when resolveDuplicates folds the second entry of a store of two into
\* the first, the first gets the translations of the second if it had no
\* non-empty translation and the second had one, and keeps its own if it had
\* one.
C20_TranslationPromoted ==
    (/\ last.op = "resolveDuplicates"
     /\ Len(last.pre) = 2
     /\ Len(m_messages) = 1)
    => /\ (~isTranslated(last.pre[1]) /\ isTranslated(last.pre[2]))
             => m_messages[1].m_translations = last.pre[2].m_translations
       /\ isTranslated(last.pre[1])
             => m_messages[1].m_translations = last.pre[1].m_translations

\* The index slots of the entry at position p (from 0): its context in the
\* context-comment index, its content key in the content index, its id in the
\* id index.  A slot registers the entry when it holds p.
InCtxCmtIdx(p) == DictGet(m_ctxCmtIdx, m_messages[p + 1].m_context, -1) = p
InMsgIdx(p) == DictGet(m_msgIdx, TMMKey(m_messages[p + 1]), -1) = p
InIdMsgIdx(p) == DictGet(m_idMsgIdx, m_messages[p + 1].m_id, -1) = p

\* Is the entry at p the last of the store among those that q's test holds of?
LastWith(p, Same(_, _)) ==
    \A q \in (p + 1)..(Len(m_messages) - 1) : ~Same(m_messages[p + 1], m_messages[q + 1])

IsContextComment(msg) == msg.m_sourcetext = EmptyStr /\ msg.m_id = EmptyStr
SameContext(m, n) == IsContextComment(n) /\ m.m_context = n.m_context
SameKey(m, n) == ~IsContextComment(n) /\ TMMKey(m) = TMMKey(n)
SameId(m, n) == m.m_id = n.m_id

\* C22 as claimed: with the indices built, every entry of the store is
\* registered in exactly one of the three indices.
C22_OneIndex_Claimed ==
    m_indexOk =>
        \A p \in 0..(Len(m_messages) - 1) :
            Cardinality({k \in {"ctx", "msg", "id"} :
                            \/ k = "ctx" /\ InCtxCmtIdx(p)
                            \/ k = "msg" /\ InMsgIdx(p)
                            \/ k = "id" /\ InIdMsgIdx(p)}) = 1

\* C22 as amended: with the indices built, an entry with neither id nor source
\* text is registered in the context-comment index alone, if it is the last
\* such entry of its context; any other entry is never in the context-comment
\* index, is in the content index if it is the last entry of its content key,
\* and is in the id index as well if it has an id and is the last entry of
\* that id.
C22_IndexCategories ==
    m_indexOk =>
        \A p \in 0..(Len(m_messages) - 1) :
            IF IsContextComment(m_messages[p + 1])
            THEN /\ InCtxCmtIdx(p) <=> LastWith(p, SameContext)
                 /\ ~InMsgIdx(p)
                 /\ ~InIdMsgIdx(p)
            ELSE /\ ~InCtxCmtIdx(p)
                 /\ InMsgIdx(p) <=> LastWith(p, SameKey)
                 /\ InIdMsgIdx(p) <=> (m_messages[p + 1].m_id # EmptyStr /\ LastWith(p, SameId))

\* C22's case: find has left the indices built, and the store holds an entry
\* with an id and a source text, registered under its content key and its id.
C22_Witness ==
    /\ last.op = "find"
    /\ m_indexOk
    /\ \E p \in 0..(Len(m_messages) - 1) :
          /\ m_messages[p + 1].m_id # EmptyStr
          /\ m_messages[p + 1].m_sourcetext # EmptyStr
          /\ InMsgIdx(p)
          /\ InIdMsgIdx(p)

\* The positions of the entries that the content index holds under key.
KeyPositions(key) ==
    {p \in 0..(Len(m_messages) - 1) :
        ~IsContextComment(m_messages[p + 1]) /\ TMMKey(m_messages[p + 1]) = key}

\* C23 as claimed: when entries of the store share a content key, a lookup of
\* that key returns the position of the earliest of them.
C23_EarlierEntryKept_Claimed ==
    (last.op = "find" /\ Cardinality(KeyPositions(TMMKey(last.arg))) >= 2) =>
        /\ last.ret \in KeyPositions(TMMKey(last.arg))
        /\ \A p \in KeyPositions(TMMKey(last.arg)) : last.ret <= p

\* C23 as amended: when entries of the store share a content key, a lookup of
\* that key returns the position of the last of them: each insertion takes
\* the slot of the key over.
C23_LaterEntryWins ==
    (last.op = "find" /\ Cardinality(KeyPositions(TMMKey(last.arg))) >= 2) =>
        /\ last.ret \in KeyPositions(TMMKey(last.arg))
        /\ \A p \in KeyPositions(TMMKey(last.arg)) : p <= last.ret

\* C23's case: two entries of one content key, differing in their ids, and a
\* lookup of the key that returned the second.
C23_Witness ==
    /\ last.op = "find"
    /\ KeyPositions(TMMKey(last.arg)) = {0, 1}
    /\ m_messages[1].m_id # m_messages[2].m_id
    /\ last.ret = 1

(***************************************************************************)
(* SpecNorm: a store of plural and non-plural entries with any number of   *)
(* translation slots, a target language, and normalizeTranslations.        *)
(***************************************************************************)
MaxNormMsgs == 2
MaxTrans == 2

CountMarker == <<37, 110>>                        \* "%n"

\* "", "C", "en", "pl", "ja", "ar", "pt_BR"
LanguageCodes ==
    {EmptyStr, <<67>>, <<101, 110>>, <<112, 108>>, <<106, 97>>, <<97, 114>>,
     <<112, 116, 95, 66, 82>>}

NormMsgs ==
    {TranslatorMessage(EmptyStr, <<99>>, CountMarker, EmptyStr, trs, "Finished", plural) :
        trs \in SeqsUpTo({EmptyStr, <<117>>}, MaxTrans), plural \in BOOLEAN}

InitNorm == InitCommon /\ ByteOrder = "LittleEndian"

NormSetLanguageCode ==
    \E code \in LanguageCodes :
        /\ m_messages = <<>>
        /\ m_language = EmptyStr
        /\ m_language' = code
        /\ last' = [op |-> "setLanguageCode"]
        /\ UNCHANGED <<m_messages, m_indexOk, m_ctxCmtIdx, m_idMsgIdx, m_msgIdx,
                       m_errors, cd, byId, byContents, dev, ByteOrder>>

NormAppend ==
    \E msg \in NormMsgs :
        /\ Len(m_messages) < MaxNormMsgs
        /\ SetTor(append(Tor, msg))
        /\ last' = [op |-> "append"]
        /\ UNCHANGED <<m_language, m_errors, cd, byId, byContents, dev, ByteOrder>>

NormNormalizeTranslations ==
    \E r \in {normalizeTranslations(m_messages, m_language, m_errors)} :
        /\ m_messages' = r.msgs
        /\ m_errors' = r.errors
        /\ last' = [op |-> "normalizeTranslations", pre |-> m_messages,
                    preErrors |-> m_errors]
        /\ UNCHANGED <<m_indexOk, m_ctxCmtIdx, m_idMsgIdx, m_msgIdx, m_language, cd,
                       byId, byContents, dev, ByteOrder>>

NextNorm == NormSetLanguageCode \/ NormAppend \/ NormNormalizeTranslations

SpecNorm == InitNorm /\ [][NextNorm]_vars

\* The target language is one the plural rule table knows.
KnownLanguageOf(lc) == numerusInfoOf(lc).ok
KnownLanguage == KnownLanguageOf(languageAndTerritory(m_language))

\* formCount(language, territory) of the target language
FormCount == Len(numerusInfoOf(languageAndTerritory(m_language)).forms)

\* C4: after normalizeTranslations with a target language the table knows, every
\* plural entry has as many translations as the language has forms and every
\* non-plural entry has exactly one.
C4_PluralInvariant ==
    (last.op = "normalizeTranslations" /\ KnownLanguage) =>
        \A i \in 1..Len(m_messages) :
            Len(m_messages[i].m_translations) =
                IF m_messages[i].m_plural THEN FormCount ELSE 1

\* C4's case: a known language of more than one form, and the call had a plural
\* entry to pad or to cut and a non-plural entry to change as well.
C4_Witness ==
    /\ last.op = "normalizeTranslations"
    /\ KnownLanguage
    /\ FormCount > 1
    /\ \E i \in 1..Len(last.pre) :
          last.pre[i].m_plural /\ Len(last.pre[i].m_translations) # FormCount
    /\ \E i \in 1..Len(last.pre) :
          ~last.pre[i].m_plural /\ Len(last.pre[i].m_translations) # 1

\* Does text hold sub?  (`sub in text` of Python)
Contains(text, sub) ==
    \E i \in 0..(Len(text) - Len(sub)) : SubSeq(text, i + 1, i + Len(sub)) = sub

\* Scenario A: normalizeTranslations was called on a store of one plural entry
\* with the count marker in its source text and exactly one translation, the
\* target language requiring 3 forms.
ScenarioA ==
    /\ last.op = "normalizeTranslations"
    /\ Len(last.pre) = 1
    /\ last.pre[1].m_plural
    /\ Contains(last.pre[1].m_sourcetext, CountMarker)
    /\ Len(last.pre[1].m_translations) = 1
    /\ KnownLanguage
    /\ FormCount = 3

ScenarioASlots ==
    /\ Len(m_messages) = 1
    /\ m_messages[1].m_translations = <<last.pre[1].m_translations[1], EmptyStr, EmptyStr>>

\* C5 as claimed: in Scenario A the entry afterwards has 3 slots, the supplied
\* translation and 2 empty strings, and a diagnostic has been appended.
C5_ScenarioA_Claimed ==
    ScenarioA => (ScenarioASlots /\ Len(m_errors) > Len(last.preErrors))

\* C5 as amended: in Scenario A the entry afterwards has 3 slots, the supplied
\* translation and 2 empty strings, and the sink is what it was before the
\* call: padding appends no diagnostic.
C5_ScenarioA ==
    ScenarioA => (ScenarioASlots /\ m_errors = last.preErrors)

C5_Witness == ScenarioA /\ last.pre[1].m_translations[1] # EmptyStr

\* The slots normalizeTranslations requires of an entry: 1 if it is not plural,
\* else the form count of the target language, 1 if the language is unknown.
RequiredSlots(msg) ==
    IF ~msg.m_plural THEN 1
    ELSE LET info == numerusInfoOf(languageAndTerritory(m_language))
         IN  IF info.ok THEN Len(info.forms) ELSE 1

MaxHashLen == 7

HashBytes == {0, 15, 240, 255}

InitHash == InitCommon /\ ByteOrder = "LittleEndian"

HashElfHash ==
    /\ last.op = "init"
    /\ \E ba \in SeqsUpTo(HashBytes, MaxHashLen) :
        /\ last' = [op |-> "elfHash", arg |-> ba, ret |-> elfHash(ba)]
        /\ UNCHANGED <<m_messages, m_indexOk, m_ctxCmtIdx, m_idMsgIdx, m_msgIdx,
                       m_language, m_errors, cd, byId, byContents, dev, ByteOrder>>

NextHash == HashElfHash

SpecHash == InitHash /\ [][NextHash]_vars

\* C10: elfHash never returns 0, whatever the byte string, the empty one
\* included.
C10_HashNeverZero ==
    last.op = "elfHash" => last.ret # <<0, 0>>

\* C10's case: the raw computation yields 0 (the empty string, and a string of
\* zero bytes) and 1 is returned in its place.
C10_Witness ==
    /\ last.op = "elfHash"
    /\ last.arg # <<>>
    /\ elfHashRaw(last.arg) = <<0, 0>>
    /\ last.ret = <<0, 1>>

\* C11: elfHash returns a 28-bit value, one of 1..2^28-1, for every byte
\* string, so that it fits the unsigned 32-bit hash field of the offset table.
C11_HashIs28Bit ==
    last.op = "elfHash" => (last.ret[1] = 0 /\ last.ret[2] \in 1..(Pow2_28 - 1))

(***************************************************************************)
(* SpecQM: a store is built and written with saveQM, or a file is put      *)
(* together from records and blocks, sound and malformed; the file is read *)
(* with loadQM into the store as it stands or into a new Translator.       *)
(***************************************************************************)
MaxQMMsgs == 2
MaxRecords == 2
MaxLoadInto == 1

\* "c", "s", "k", "u", "%n"
QMMsgs ==
    {TranslatorMessage(EmptyStr, <<99>>, <<115>>, EmptyStr, <<<<117>>>>, "Finished", FALSE),
     TranslatorMessage(EmptyStr, <<99>>, <<115>>, <<107>>, <<<<117>>>>, "Finished", FALSE),
     TranslatorMessage(EmptyStr, EmptyStr, <<115>>, <<107>>, <<<<117>>>>, "Finished", FALSE),
     TranslatorMessage(EmptyStr, <<99>>, <<115>>, EmptyStr, <<EmptyStr>>, "Unfinished", FALSE),
     TranslatorMessage(EmptyStr, <<99>>, CountMarker, EmptyStr,
                       <<<<117>>, EmptyStr, <<117>>>>, "Finished", TRUE),
     TranslatorMessage(EmptyStr, <<99>>, <<115>>, EmptyStr, <<<<117>>>>, "Obsolete", FALSE)}

\* The records a file is put together from: a sound one; one whose comment
\* is not UTF-8, its source text and context sound; one whose context is not
\* UTF-8; one whose translation claims an odd number of bytes.
RecordSound ==
    writeMessage(ByteTranslatorMessage(<<99>>, <<115>>, <<>>, <<<<117>>>>),
                 "SaveEverything", NoPrefix)
RecordBadComment ==
    writeMessage(ByteTranslatorMessage(<<99>>, <<115>>, <<255>>, <<<<117>>>>),
                 "SaveEverything", NoPrefix)
RecordBadContext ==
    writeMessage(ByteTranslatorMessage(<<255>>, <<115>>, <<>>, <<<<117>>>>),
                 "SaveEverything", NoPrefix)
RecordOddLength ==
    uint8(Tag_Translation) \o uint32(1) \o <<117>> \o uint8(Tag_End)

Records == {RecordSound, RecordBadComment, RecordBadContext, RecordOddLength}

\* A block that claims 10 bytes where 3 remain.
OverlongBlock == uint8(Contexts) \o uint32(10) \o <<1, 2, 3>>

\* The offset of record i (from 1) in the message array.
RecordOffset(recs, i) == Len(Flatten(SubSeq(recs, 1, i - 1)))

\* A file: the magic, a Language block, the Hashes and Messages blocks of the
\* records, and a tail.
Stream(language, recs, tail) ==
    magic
    \o (IF language # <<>> THEN Block(Language, language) ELSE <<>>)
    \o (IF recs # <<>>
        THEN Block(Hashes, Flatten([i \in 1..Len(recs) |->
                                       uint32(1) \o uint32(RecordOffset(recs, i))]))
             \o Block(Messages, Flatten(recs))
        ELSE <<>>)
    \o tail

Streams ==
    {Stream(language, recs, tail) :
        language \in {<<>>, <<255>>},
        recs \in SeqsUpTo(Records, MaxRecords),
        tail \in {<<>>, OverlongBlock}}
    \cup {<<0>> \o Tail(magic)}

BuildOps == {"init", "setLanguageCode", "append"}

InitQM == InitCommon /\ ByteOrder \in {"LittleEndian", "BigEndian"}

\* Translator.setLanguageCode("pl")
QMSetLanguageCode ==
    /\ last.op \in BuildOps
    /\ m_language = EmptyStr
    /\ m_language' = <<112, 108>>
    /\ last' = [op |-> "setLanguageCode"]
    /\ UNCHANGED <<m_messages, m_indexOk, m_ctxCmtIdx, m_idMsgIdx, m_msgIdx,
                   m_errors, cd, byId, byContents, dev, ByteOrder>>

QMAppend ==
    \E msg \in QMMsgs :
        /\ last.op \in BuildOps
        /\ Len(m_messages) < MaxQMMsgs
        /\ SetTor(append(Tor, msg))
        /\ last' = [op |-> "append"]
        /\ UNCHANGED <<m_language, m_errors, cd, byId, byContents, dev, ByteOrder>>

QMSaveQM ==
    \E r \in {saveQM(m_messages, m_language, cd, m_errors)} :
        /\ last.op \in BuildOps
        /\ dev' = IF r.raised THEN dev ELSE r.dev
        /\ m_errors' = r.errors
        /\ last' = [op |-> "saveQM", raised |-> r.raised, ret |-> r.ret,
                    store |-> m_messages, language |-> m_language]
        /\ UNCHANGED <<m_messages, m_indexOk, m_ctxCmtIdx, m_idMsgIdx, m_msgIdx,
                       m_language, cd, byId, byContents, ByteOrder>>

\* Translator(): the empty store a written file is read back into.
QMNew ==
    /\ last.op = "saveQM"
    /\ ~last.raised
    /\ SetTor(EmptyTor)
    /\ m_language' = EmptyStr
    /\ last' = [op |-> "new", saved |-> last.store, language |-> last.language]
    /\ UNCHANGED <<m_errors, cd, byId, byContents, dev, ByteOrder>>

\* A file from elsewhere takes the place of the device, before a store of at
\* most MaxLoadInto entries and no language.
QMOpen ==
    \E stream \in Streams :
        /\ last.op \in BuildOps
        /\ Len(m_messages) <= MaxLoadInto
        /\ m_language = EmptyStr
        /\ dev' = stream
        /\ last' = [op |-> "open"]
        /\ UNCHANGED <<m_messages, m_indexOk, m_ctxCmtIdx, m_idMsgIdx, m_msgIdx,
                       m_language, m_errors, cd, byId, byContents, ByteOrder>>

QMLoadQM ==
    /\ \/ last.op \in {"new", "open"}
       \/ (last.op = "saveQM" /\ ~last.raised)
    /\ \E r \in {loadQM(Tor, m_language, dev, m_errors, ByteOrder)} :
          /\ SetTor(r.tor)
          /\ m_language' = r.language
          /\ m_errors' = r.errors
          /\ last' = [op |-> "loadQM", pre |-> m_messages, preErrors |-> m_errors,
                      data |-> dev, raised |-> r.raised, ret |-> r.ret,
                      any_fail |-> r.any_fail, roundTrip |-> last.op = "new",
                      saved |-> IF last.op = "new" THEN last.saved ELSE <<>>,
                      language |-> IF last.op = "new" THEN last.language ELSE EmptyStr]
    /\ UNCHANGED <<cd, byId, byContents, dev, ByteOrder>>

NextQM == QMSetLanguageCode \/ QMAppend \/ QMSaveQM \/ QMNew \/ QMOpen \/ QMLoadQM

SpecQM == InitQM /\ [][NextQM]_vars

\* A store C1 speaks of: no Obsolete or Vanished entry, and the translation
\* slots are what normalizeTranslations leaves for the store's language.
RoundTripStore(store, language) ==
    /\ \A i \in 1..Len(store) : store[i].m_type \notin {"Obsolete", "Vanished"}
    /\ normalizeTranslations(store, language, <<>>).msgs = store

EntryKey(msg) == <<msg.m_context, msg.m_sourcetext, msg.m_comment, msg.m_translations>>

\* The same multiset of entries by (context, sourceText, comment, translations).
Equivalent(a, b) ==
    \A k \in {EntryKey(a[i]) : i \in 1..Len(a)} \cup {EntryKey(b[i]) : i \in 1..Len(b)} :
        Cardinality({i \in 1..Len(a) : EntryKey(a[i]) = k})
            = Cardinality({i \in 1..Len(b) : EntryKey(b[i]) = k})

\* C1: saveQM in save-everything mode succeeds on any store without Obsolete or
\* Vanished entries and with normalized translation slots, and loadQM of what
\* it wrote, into an empty store, succeeds and yields the same multiset of
\* entries by (context, sourceText, comment, translations), all Finished.
C1_RoundTrip ==
    /\ (last.op = "saveQM" /\ cd.m_saveMode = "SaveEverything"
          /\ RoundTripStore(last.store, last.language))
        => (~last.raised /\ last.ret)
    /\ (last.op = "loadQM" /\ last.roundTrip
          /\ RoundTripStore(last.saved, last.language))
        => /\ ~last.raised
           /\ last.ret
           /\ Equivalent(m_messages, last.saved)
           /\ \A i \in 1..Len(m_messages) : m_messages[i].m_type = "Finished"

\* C2: whenever loadQM returns failure, the entry sequence of the store is what
\* it was before the call.
C2_FailureLeavesStore ==
    (last.op = "loadQM" /\ ~last.raised /\ ~last.ret) => m_messages = last.pre

\* Does a walk over the blocks of data come to one whose declared length
\* exceeds the number of bytes after its header?
RECURSIVE HasOverlongBlock(_)
HasOverlongBlock(data) ==
    IF Len(data) < 5 THEN FALSE
    ELSE LET block_length == read32(Drop(data, 1))
         IN  \/ block_length > Len(data) - 5
             \/ HasOverlongBlock(Drop(data, 5 + block_length))

\* Scenario D: loadQM was called on a stream of the correct magic and then a
\* block whose declared length exceeds the bytes remaining.
ScenarioD ==
    /\ last.op = "loadQM"
    /\ startswith(last.data, magic)
    /\ HasOverlongBlock(Drop(last.data, Len(magic)))

\* C7: in Scenario D loadQM returns failure and appends at least one
\* diagnostic to the sink.
C7_ScenarioD ==
    ScenarioD => (~last.ret /\ Len(m_errors) > Len(last.preErrors))

\* C8: if any text loadQM decoded was not valid UTF-8, wherever in the stream
\* it stood, and nothing else is wrong with the stream (no block is overlong,
\* no translation has an odd length), loadQM returns failure and the sink
\* ends with the invalid-UTF-8 diagnostic.
C8_InvalidUtf8Fails ==
    (last.op = "loadQM" /\ last.any_fail /\ ~last.raised /\ ~ScenarioD
        /\ m_errors # Append(last.preErrors, FormatError)) =>
        /\ ~last.ret
        /\ m_errors = Append(last.preErrors, InvalidUtf8)

(***************************************************************************)
(* SpecSave: a ConversionData is configured as lrelease configures it, a   *)
(* store is built, saveQM writes it, and what was written is read back     *)
(* into a new Translator.                                                  *)
(***************************************************************************)
MaxSaveMsgs == 2

\* The configurations: save mode, id-based or not, with or without a prefix
\* for untranslated texts ("p"), with or without the unfinished entries.
Configs ==
    [m_idBased : BOOLEAN, m_unTrPrefix : {EmptyStr, <<112>>},
     m_saveMode : {"SaveEverything", "SaveStripped"},
     m_ignoreUnfinished : BOOLEAN, m_verbose : {FALSE}]

\* "a", "b" contexts; "s", "t" source texts; "k" a comment; "x" an id; "u" a
\* translation.
SaveMsgs ==
    {TranslatorMessage(EmptyStr, <<97>>, <<116>>, EmptyStr, <<<<117>>>>, "Finished", FALSE),
     TranslatorMessage(EmptyStr, <<98>>, <<115>>, EmptyStr, <<<<117>>>>, "Finished", FALSE),
     TranslatorMessage(<<120>>, <<97>>, <<115>>, <<107>>, <<<<117>>>>, "Finished", FALSE),
     TranslatorMessage(EmptyStr, <<97>>, <<115>>, EmptyStr, <<EmptyStr>>, "Unfinished", FALSE),
     TranslatorMessage(<<120>>, <<97>>, <<115>>, EmptyStr, <<<<117>>>>, "Unfinished", FALSE),
     TranslatorMessage(<<120>>, <<97>>, <<115>>, EmptyStr, <<<<117>>>>, "Obsolete", FALSE),
     TranslatorMessage(<<120>>, <<97>>, <<115>>, EmptyStr, <<<<117>>>>, "Vanished", FALSE)}

SaveBuildOps == {"init", "configure", "append"}

InitSave == InitCommon /\ ByteOrder = "LittleEndian"

\* lrelease: the options set the fields of the ConversionData.
SaveConfigure ==
    /\ last.op = "init"
    /\ \E c \in Configs :
          /\ cd' = c
          /\ last' = [op |-> "configure"]
    /\ UNCHANGED <<m_messages, m_indexOk, m_ctxCmtIdx, m_idMsgIdx, m_msgIdx, m_language,
                   m_errors, byId, byContents, dev, ByteOrder>>

SaveAppend ==
    /\ last.op \in SaveBuildOps
    /\ Len(m_messages) < MaxSaveMsgs
    /\ \E msg \in SaveMsgs :
          /\ SetTor(append(Tor, msg))
          /\ last' = [op |-> "append"]
    /\ UNCHANGED <<m_language, m_errors, cd, byId, byContents, dev, ByteOrder>>

SaveSaveQM ==
    /\ last.op \in SaveBuildOps
    /\ \E r \in {saveQM(m_messages, m_language, cd, m_errors)} :
          /\ dev' = IF r.raised THEN dev ELSE r.dev
          /\ m_errors' = r.errors
          /\ last' = [op |-> "saveQM", raised |-> r.raised, ret |-> r.ret,
                      store |-> m_messages, preErrors |-> m_errors]
    /\ UNCHANGED <<m_messages, m_indexOk, m_ctxCmtIdx, m_idMsgIdx, m_msgIdx,
                   m_language, cd, byId, byContents, ByteOrder>>

\* Translator() and loadQM of what saveQM wrote.
SaveLoadQM ==
    /\ last.op = "saveQM"
    /\ ~last.raised
    /\ \E r \in {loadQM(EmptyTor, EmptyStr, dev, m_errors, ByteOrder)} :
          /\ SetTor(r.tor)
          /\ m_language' = r.language
          /\ m_errors' = r.errors
          /\ last' = [op |-> "loadQM", raised |-> r.raised, ret |-> r.ret,
                      saved |-> last.store]
    /\ UNCHANGED <<cd, byId, byContents, dev, ByteOrder>>

NextSave == SaveConfigure \/ SaveAppend \/ SaveSaveQM \/ SaveLoadQM

SpecSave == InitSave /\ [][NextSave]_vars

\* The records saveQM hands to the Releaser for a store under a configuration.
ConvertedRecords(store, c) ==
    saveLoop(store, 1, c,
             [finished |-> 0, unfinished |-> 0, untranslated |-> 0,
              missing_ids |-> 0, dropped_data |-> 0, rel |-> <<>>]).rel

\* The (context, sourceText, comment) of records, and of decoded entries.
RecordKeys(rel) ==
    {<<rel[i].m_context, rel[i].m_sourceText, rel[i].m_comment>> : i \in 1..Len(rel)}
EntryKeys(msgs) ==
    {<<originalBytes(msgs[i].m_context), originalBytes(msgs[i].m_sourcetext),
       originalBytes(msgs[i].m_comment)>> : i \in 1..Len(msgs)}

\* C12: a store is encoded in stripped mode, and the entries decoded from
\* what was written have the context, source text and comment of the records
\* they were written from, the fields whose tags prefix compaction omitted
\* included.
C12_PrefixCompaction ==
    /\ (last.op = "saveQM" /\ cd.m_saveMode = "SaveStripped") => ~last.raised
    /\ (last.op = "loadQM" /\ cd.m_saveMode = "SaveStripped") =>
           EntryKeys(m_messages) = RecordKeys(ConvertedRecords(last.saved, cd))

\* The blocks of a written file, as the block loop of loadQM finds them.
FileOf(data) ==
    loadBlocks([data |-> Drop(data, Len(magic)), offset_array |-> <<>>,
                offset_length |-> 0, message_array |-> <<>>, language |-> EmptyStr,
                utf8_fail |-> FALSE, ok |-> TRUE, any_fail |-> FALSE])

\* Entry k (from 0) of the offset table of a file: its hash and its offset.
TableHash(f, k) == read32(Drop(f.offset_array, 8 * k))
TableOffset(f, k) == read32(Drop(f.offset_array, 8 * k + 4))
TableEntries(f) == 0..((f.offset_length \div 8) - 1)

\* The record entry k of the table points to, as context, source text and
\* comment in bytes.
RecordOf(r) ==
    ByteTranslatorMessage(originalBytes(r.context), originalBytes(r.source_text),
                          originalBytes(r.comment), <<>>)
RecordAt(f, k) ==
    RecordOf(readRecord([m |-> Drop(f.message_array, TableOffset(f, k)),
                         context |-> EmptyStr, source_text |-> EmptyStr,
                         comment |-> EmptyStr, translations |-> <<>>,
                         utf8_fail |-> FALSE, any_fail |-> FALSE, status |-> "ok"],
                        "LittleEndian"))

\* Record k follows record j in the record blob, none between them.
NextInBlob(f, j, k) ==
    /\ TableOffset(f, j) < TableOffset(f, k)
    /\ ~\E l \in TableEntries(f) :
          TableOffset(f, j) < TableOffset(f, l) /\ TableOffset(f, l) < TableOffset(f, k)

\* The order of the key (hash, context, sourceText, comment).
HashKeyLess(f, j, k) ==
    IF TableHash(f, j) # TableHash(f, k) THEN TableHash(f, j) < TableHash(f, k)
    ELSE ByteTranslatorMessageLess(RecordAt(f, j), RecordAt(f, k))

BlobInHashKeyOrder(f) ==
    \A j, k \in TableEntries(f) : NextInBlob(f, j, k) => HashKeyLess(f, j, k)

BlobInKeyOrder(f) ==
    \A j, k \in TableEntries(f) :
        NextInBlob(f, j, k) => ByteTranslatorMessageLess(RecordAt(f, j), RecordAt(f, k))

TableInHashOrder(f) ==
    \A k \in TableEntries(f) :
        (k + 1) \in TableEntries(f) =>
            \/ TableHash(f, k) < TableHash(f, k + 1)
            \/ /\ TableHash(f, k) = TableHash(f, k + 1)
               /\ TableOffset(f, k) < TableOffset(f, k + 1)

\* C13 as claimed: the records of a written file stand in the blob in
\* ascending order of (hash, context, sourceText, comment), compared byte-wise.
C13_RecordsByHash_Claimed ==
    (last.op = "saveQM" /\ ~last.raised) => BlobInHashKeyOrder(FileOf(dev))

\* C13 as amended: the records of a written file stand in the blob in
\* ascending order of (context, sourceText, comment), compared byte-wise, the
\* hash being no part of that order; it is the offset table that ascends by
\* (hash, offset).
C13_RecordsByKey ==
    (last.op = "saveQM" /\ ~last.raised) =>
        (BlobInKeyOrder(FileOf(dev)) /\ TableInHashOrder(FileOf(dev)))

\* C13's case: a file of two records was written, the first in the blob of the
\* greater hash, from entries appended in the other order.
C13_Witness ==
    /\ last.op = "saveQM"
    /\ ~last.raised
    /\ Len(last.store) = 2
    /\ SeqLess(originalBytes(last.store[2].m_context), originalBytes(last.store[1].m_context))
    /\ \E j, k \in TableEntries(FileOf(dev)) :
          /\ NextInBlob(FileOf(dev), j, k)
          /\ TableHash(FileOf(dev), k) < TableHash(FileOf(dev), j)

\* C15: for every store and every configuration saveQM runs to completion
\* without raising and returns success; what it drops only adds diagnostics.
C15_SaveNeverFails ==
    last.op = "saveQM" =>
        /\ ~last.raised
        /\ last.ret
        /\ Len(m_errors) >= Len(last.preErrors)

\* Does saveQM hand a record to the Releaser for entry i (from 1) of a store?
EmitsRecord(store, c, i) ==
    Len(ConvertedRecords(Take(store, i), c)) > Len(ConvertedRecords(Take(store, i - 1), c))

\* C16: saveQM emits no record for an Obsolete or Vanished entry under any
\* configuration; not id-based and with no prefix for untranslated texts, it
\* emits a record for an Unfinished entry only if the entry has a non-empty
\* translation and ignoreUnfinished is off, and for every Finished entry.  A
\* record is emitted when it is handed to the Releaser; a file saveQM has
\* written holds one record for each.
C16_RetainedEntries ==
    last.op = "saveQM" =>
        /\ \A i \in 1..Len(last.store) :
              last.store[i].m_type \in {"Obsolete", "Vanished"}
                  => ~EmitsRecord(last.store, cd, i)
        /\ (~cd.m_idBased /\ cd.m_unTrPrefix = EmptyStr) =>
              \A i \in 1..Len(last.store) :
                  /\ (last.store[i].m_type = "Unfinished" /\ EmitsRecord(last.store, cd, i))
                        => (isTranslated(last.store[i]) /\ ~cd.m_ignoreUnfinished)
                  /\ last.store[i].m_type = "Finished" => EmitsRecord(last.store, cd, i)
        /\ ~last.raised =>
              Cardinality(TableEntries(FileOf(dev)))
                  = Cardinality({i \in 1..Len(last.store) : EmitsRecord(last.store, cd, i)})

\* C16's case: a file was written, not id-based and with no prefix, from a
\* store of an Obsolete or Vanished entry and a translated Unfinished entry,
\* and holds the one record of the Unfinished entry.
C16_Witness ==
    /\ last.op = "saveQM"
    /\ ~last.raised
    /\ ~cd.m_idBased
    /\ cd.m_unTrPrefix = EmptyStr
    /\ \E i \in 1..Len(last.store) : last.store[i].m_type \in {"Obsolete", "Vanished"}
    /\ \E i \in 1..Len(last.store) :
          last.store[i].m_type = "Unfinished" /\ EmitsRecord(last.store, cd, i)
    /\ Cardinality(TableEntries(FileOf(dev))) = 1

(***************************************************************************)
(* SpecTable: squeeze in stripped mode sizes the context hash table, for   *)
(* messages of any number of distinct contexts.                            *)
(***************************************************************************)
MaxContexts == 100

\* Every small number of contexts, and the numbers at and around the
\* thresholds of the staircase.
ContextCounts ==
    (0..MaxContexts) \cup {199, 200, 749, 750, 2499, 2500, 5000, 9999, 10000, 20000}

InitTable == InitCommon /\ ByteOrder = "LittleEndian"

TableSqueeze ==
    /\ last.op = "init"
    /\ \E n \in ContextCounts :
          \E r \in {contextTableSize(n)} :
              last' = [op |-> "squeeze", contexts |-> n, raised |-> r.raised,
                       h_table_size |-> r.h_table_size]
    /\ UNCHANGED <<m_messages, m_indexOk, m_ctxCmtIdx, m_idMsgIdx, m_msgIdx,
                   m_language, m_errors, cd, byId, byContents, dev, ByteOrder>>

NextTable == TableSqueeze

SpecTable == InitTable /\ [][NextTable]_vars

\* The band of the staircase a number of contexts falls into.
Band(n) ==
    IF n < 60 THEN 1 ELSE IF n < 200 THEN 2 ELSE IF n < 750 THEN 3
    ELSE IF n < 2500 THEN 4 ELSE IF n < 10000 THEN 5 ELSE 6

\* C14: in stripped mode squeeze sizes the context hash table by the staircase
\* over the number of distinct contexts: one bucket count for each band
\* between the thresholds 60/200/750/2500/10000, 1.5 x the number beyond them,
\* and 5003 buckets for 5000 contexts.
C14_Staircase ==
    last.op = "squeeze" =>
        /\ ~last.raised
        /\ last.h_table_size = hTableSize(last.contexts)
        /\ \A n \in ContextCounts :
              Band(n) = Band(last.contexts) /\ Band(n) < 6
                  => hTableSize(n) = hTableSize(last.contexts)
        /\ (last.contexts >= 10000 => last.h_table_size = (3 * last.contexts) \div 2)
        /\ (last.contexts = 5000 => last.h_table_size = 5003)

(***************************************************************************)
(* SpecExtend: a store of entries with extension metadata, references and  *)
(* extra comments, under append and extend.                                *)
(***************************************************************************)
MaxExtendMsgs == 2
MaxExtendErrors == 1

\* Entries of context "c" with the ids "", "x", "y", the source texts "", "s",
\* "t", no metadata or one of two that differ, and seen nowhere, at f:1 with
\* the extra comment "e", or at g:2 with the extra comment "n".
ExtendMsgs ==
    LET M(id, src, extra, file, line, xc) ==
            [m_id |-> id, m_context |-> <<99>>, m_sourcetext |-> src,
             m_comment |-> EmptyStr, m_translations |-> <<EmptyStr>>,
             m_type |-> "Unfinished", m_plural |-> FALSE,
             m_extra |-> extra, m_fileName |-> file, m_lineNumber |-> line,
             m_extraRefs |-> <<>>, m_extraComment |-> xc]
        K1 == [k \in {"k"} |-> 1]
        K2 == [k \in {"k"} |-> 2]
    IN  {M(EmptyStr, <<115>>, EmptyDict, "None", -1, EmptyStr),
         M(EmptyStr, <<115>>, K1, "f", 1, <<101>>),
         M(EmptyStr, <<115>>, K2, "g", 2, <<110>>),
         M(<<120>>, <<115>>, K1, "f", 1, <<101>>),
         M(<<120>>, <<115>>, K2, "g", 2, <<110>>),
         M(<<120>>, <<116>>, K1, "g", 2, <<110>>),
         M(<<121>>, <<115>>, EmptyDict, "g", 2, <<110>>),
         M(<<120>>, EmptyStr, EmptyDict, "None", -1, EmptyStr),
         M(<<121>>, EmptyStr, K1, "f", 1, <<101>>),
         M(EmptyStr, EmptyStr, K1, "f", 1, <<101>>),
         M(EmptyStr, EmptyStr, K2, "g", 2, <<110>>)}

InitExtend == InitCommon /\ ByteOrder = "LittleEndian"

ExtendAppend ==
    /\ Len(m_messages) < MaxExtendMsgs
    /\ \E msg \in ExtendMsgs :
        /\ SetTor(append(Tor, msg))
        /\ last' = [op |-> "append"]
        /\ UNCHANGED <<m_language, m_errors, cd, byId, byContents, dev, ByteOrder>>

ExtendExtend ==
    /\ m_messages # <<>>
    /\ Len(m_errors) < MaxExtendErrors
    /\ \E msg \in ExtendMsgs :
        \E r \in {extend(Tor, msg, m_errors)} :
            /\ Len(r.t.m_messages) <= MaxExtendMsgs
            /\ SetTor(r.t)
            /\ m_errors' = r.errors
            /\ last' = [op |-> "extend", arg |-> msg, found |-> find(Tor, msg),
                        pre |-> m_messages, raised |-> r.raised,
                        reported |-> Len(r.errors) > Len(m_errors)]
            /\ UNCHANGED <<m_language, cd, byId, byContents, dev, ByteOrder>>

NextExtend == ExtendAppend \/ ExtendExtend

SpecExtend == InitExtend /\ [][NextExtend]_vars

(***************************************************************************)
(* Claims about extend.                                                    *)
(***************************************************************************)
\* Does msg contradict the stored entry emsg: a different non-empty source
\* text, or different non-empty extension metadata?
Contradicts(emsg, msg) ==
    \/ msg.m_sourcetext # EmptyStr /\ emsg.m_sourcetext # EmptyStr
       /\ msg.m_sourcetext # emsg.m_sourcetext
    \/ msg.m_extra # EmptyDict /\ emsg.m_extra # EmptyDict /\ msg.m_extra # emsg.m_extra

\* C17: when find locates an entry that msg contradicts, extend(msg) appends an
\* error to the diagnostics and leaves the entries of the store, their number
\* and their order as they were.
C17_ConflictKeepsEntry ==
    (last.op = "extend" /\ last.found >= 0
        /\ Contradicts(last.pre[last.found + 1], last.arg))
    => (last.reported /\ ~last.raised /\ m_messages = last.pre)

(***************************************************************************)
(* SpecNumerus: getNumerusInfo over every language of the table and two    *)
(* the table does not hold, with no territory, with the one territory the  *)
(* table names, and with two it does not name.                             *)
(***************************************************************************)
NumerusLanguages ==
    UNION {{numerusTable[e].languages[j] : j \in 1..Len(numerusTable[e].languages)} :
              e \in 1..Len(numerusTable)}
        \cup {"C", "Klingon"}

NumerusCountries == {"AnyCountry", "Brazil", "Portugal", "France"}

InitNumerus == InitCommon /\ ByteOrder = "LittleEndian"

NumerusGet ==
    \E language \in NumerusLanguages, country \in NumerusCountries :
        /\ last' = [op |-> "getNumerusInfo", language |-> language, country |-> country,
                    ret |-> getNumerusInfo(language, country)]
        /\ UNCHANGED <<m_messages, m_indexOk, m_ctxCmtIdx, m_idMsgIdx, m_msgIdx,
                       m_language, m_errors, cd, byId, byContents, dev, ByteOrder>>

NextNumerus == NumerusGet

SpecNumerus == InitNumerus /\ [][NextNumerus]_vars

(***************************************************************************)
(* Claims about the plural rule table.                                     *)
(***************************************************************************)
\* Does entry e of the table list the pair (language, country)?  An entry with
\* no countries lists each of its languages for AnyCountry.
Lists(e, language, country) ==
    \E j \in 1..Len(numerusTable[e].languages) :
        /\ numerusTable[e].languages[j] = language
        /\ IF numerusTable[e].countries = <<>> THEN country = "AnyCountry"
           ELSE numerusTable[e].countries[j] = country

\* What getNumerusInfo returns for entry e.
InfoOf(e) ==
    [rules |-> numerusTable[e].rules, forms |-> numerusTable[e].forms,
     gettextRules |-> numerusTable[e].gettextRules, ok |-> TRUE]

\* C18: getNumerusInfo(language, country) returns the first entry that lists the
\* exact pair when one does (Portuguese with Brazil is the French-style entry,
\* not the English-style entry that lists Portuguese for any territory);
\* otherwise the first entry that lists the language for AnyCountry; and it
\* returns found = false only when no entry lists the language either way.
C18_TerritoryFallback ==
    last.op = "getNumerusInfo" =>
        LET exact == {e \in 1..Len(numerusTable) : Lists(e, last.language, last.country)}
            any == {e \in 1..Len(numerusTable) : Lists(e, last.language, "AnyCountry")}
        IN  /\ exact # {} => \E e \in exact : /\ last.ret = InfoOf(e)
                                              /\ \A f \in exact : e <= f
            /\ (exact = {} /\ any # {}) => \E e \in any : /\ last.ret = InfoOf(e)
                                                          /\ \A f \in any : e <= f
            /\ ~last.ret.ok <=> (exact = {} /\ any = {})
            /\ (last.language = "Portuguese" /\ last.country = "Brazil")
                  => last.ret.rules = frenchStyleRules
            /\ (last.language = "Portuguese" /\ last.country # "Brazil")
                  => last.ret.rules = englishStyleRules

\* C18's case: a language asked for with a territory the table does not list
\* for it was found under AnyCountry.
C18_Witness ==
    /\ last.op = "getNumerusInfo"
    /\ last.language = "Portuguese"
    /\ last.country = "Portugal"
    /\ last.ret.ok
    /\ last.ret.gettextRules = "nplurals=2; plural=(n != 1);"

(***************************************************************************)
(* SpecSorted: a store of entries with a file and a line, built by append  *)
(* and appendSorted.                                                       *)
(***************************************************************************)
MaxSortedMsgs == 6

\* Entries of context "c" seen in file f at the lines 1 to 4 or at no line,
\* and one seen in file g.
SortedMsgs ==
    LET M(file, line) ==
            [m_id |-> EmptyStr, m_context |-> <<99>>, m_sourcetext |-> <<115>>,
             m_comment |-> EmptyStr, m_translations |-> <<EmptyStr>>,
             m_type |-> "Unfinished", m_plural |-> FALSE,
             m_extra |-> EmptyDict, m_fileName |-> file, m_lineNumber |-> line,
             m_extraRefs |-> <<>>, m_extraComment |-> EmptyStr]
    IN  {M("f", -1), M("f", 1), M("f", 2), M("f", 3), M("f", 4), M("g", 2)}

InitSorted == InitCommon /\ ByteOrder = "LittleEndian"

\* Has the store been built by appendSorted alone, from messages of one file
\* and context with lines that are not negative?
BuiltSorted == IF m_messages = <<>> THEN TRUE ELSE last.sortedOnly

SortedAppend ==
    /\ Len(m_messages) < MaxSortedMsgs
    /\ \E msg \in SortedMsgs :
        /\ SetTor(append(Tor, msg))
        /\ last' = [op |-> "append", arg |-> msg, pre |-> m_messages,
                    sortedOnly |-> FALSE]
        /\ UNCHANGED <<m_language, m_errors, cd, byId, byContents, dev, ByteOrder>>

SortedAppendSorted ==
    /\ Len(m_messages) < MaxSortedMsgs
    /\ \E msg \in SortedMsgs :
        /\ SetTor(appendSorted(Tor, msg))
        /\ last' = [op |-> "appendSorted", arg |-> msg, pre |-> m_messages,
                    sortedOnly |->
                        /\ BuiltSorted
                        /\ msg.m_lineNumber >= 0
                        /\ \A k \in 1..Len(m_messages) :
                              /\ m_messages[k].m_fileName = msg.m_fileName
                              /\ m_messages[k].m_context = msg.m_context]
        /\ UNCHANGED <<m_language, m_errors, cd, byId, byContents, dev, ByteOrder>>

NextSorted == SortedAppend \/ SortedAppendSorted

SpecSorted == InitSorted /\ [][NextSorted]_vars

(***************************************************************************)
(* Claims about appendSorted.                                              *)
(***************************************************************************)
SameFile(m, n) == m.m_fileName = n.m_fileName /\ m.m_context = n.m_context

\* The positions k of msgs before which msg is bracketed: the entry before k
\* and the entry at k are of msg's file and context, and the line of msg is at
\* least the line of the first and less than the line of the second.
Brackets(msgs, msg) ==
    {k \in 1..(Len(msgs) - 1) :
        /\ SameFile(msgs[k], msg)
        /\ SameFile(msgs[k + 1], msg)
        /\ msgs[k].m_lineNumber <= msg.m_lineNumber
        /\ msg.m_lineNumber < msgs[k + 1].m_lineNumber}

\* C25: appendSorted(msg) adds exactly one entry and keeps the order of the
\* others; msg goes to the end if its line is negative or no entry shares its
\* file and context; and if neighbours of a run of its file and context bracket
\* its line, msg goes directly before the second of two such neighbours.
C25_Placement ==
    last.op = "appendSorted" =>
        /\ \E k \in 0..Len(last.pre) : m_messages = ListInsert(last.pre, k, last.arg)
        /\ (\/ last.arg.m_lineNumber < 0
            \/ \A k \in 1..Len(last.pre) : ~SameFile(last.pre[k], last.arg))
              => m_messages = Append(last.pre, last.arg)
        /\ (last.arg.m_lineNumber >= 0 /\ Brackets(last.pre, last.arg) # {})
              => \E k \in Brackets(last.pre, last.arg) :
                    m_messages = ListInsert(last.pre, k, last.arg)

\* C29: a store built from nothing by appendSorted alone, from messages of one
\* file and context with lines that are not negative, is in non-decreasing
\* order of line.
C29_SortedByLine ==
    (last.op = "appendSorted" /\ last.sortedOnly) =>
        \A k \in 1..(Len(m_messages) - 1) :
            m_messages[k].m_lineNumber <= m_messages[k + 1].m_lineNumber

\* C29's case: appendSorted alone has built a store of four entries, and the
\* last call put its message before entries of greater lines and after an
\* entry of its own line.
C29_Witness ==
    /\ last.op = "appendSorted"
    /\ last.sortedOnly
    /\ Len(m_messages) >= 4
    /\ \E k \in 2..(Len(m_messages) - 1) :
          /\ m_messages = ListInsert(last.pre, k - 1, last.arg)
          /\ m_messages[k - 1].m_lineNumber = last.arg.m_lineNumber
          /\ m_messages[k + 1].m_lineNumber > last.arg.m_lineNumber
    /\ last.pre[Len(last.pre)].m_lineNumber > last.pre[1].m_lineNumber

(***************************************************************************)
(* SpecIndex: the store and its indices under every operation that adds,   *)
(* replaces or removes entries, with find in between.                      *)
(***************************************************************************)
MaxIndexMsgs == 2

StripPasses ==
    {"stripObsoleteMessages", "stripFinishedMessages", "stripUntranslatedMessages",
     "stripEmptyContexts", "stripNonPluralForms", "stripIdenticalSourceTranslations"}

\* Entries of context "c": with and without an id and a source text, of every
\* kind a stripping pass tests for, some seen in file f.
IndexMsgs ==
    LET M(id, src, trs, type, plural, extra, file, line) ==
            [m_id |-> id, m_context |-> <<99>>, m_sourcetext |-> src,
             m_comment |-> EmptyStr, m_translations |-> trs,
             m_type |-> type, m_plural |-> plural,
             m_extra |-> extra, m_fileName |-> file, m_lineNumber |-> line,
             m_extraRefs |-> <<>>, m_extraComment |-> EmptyStr]
    IN  {M(EmptyStr, <<115>>, <<EmptyStr>>, "Unfinished", FALSE, EmptyDict, "f", 2),
         M(<<120>>, <<115>>, <<<<117>>>>, "Finished", TRUE, [k \in {"k"} |-> 1], "f", 1),
         M(<<121>>, EmptyStr, <<EmptyStr>>, "Unfinished", TRUE, EmptyDict, "None", -1),
         M(EmptyStr, EmptyStr, <<<<117>>>>, "Obsolete", TRUE, EmptyDict, "None", -1),
         M(<<120>>, <<116>>, <<<<116>>>>, "Finished", TRUE, [k \in {"k"} |-> 2], "f", 1),
         M(EmptyStr, ContextComment, <<<<117>>>>, "Finished", TRUE, EmptyDict, "None", -1)}

InitIndex == InitCommon /\ ByteOrder = "LittleEndian"

IndexInsert ==
    /\ Len(m_messages) < MaxIndexMsgs
    /\ \E msg \in IndexMsgs, idx \in 0..Len(m_messages) :
        /\ SetTor(insert(Tor, idx, msg))
        /\ last' = [op |-> "insert", atEnd |-> (idx = Len(m_messages)),
                    clean |-> m_indexOk, raised |-> FALSE]
        /\ UNCHANGED <<m_language, m_errors, cd, byId, byContents, dev, ByteOrder>>

IndexAppendSorted ==
    /\ Len(m_messages) < MaxIndexMsgs
    /\ \E msg \in IndexMsgs :
        /\ SetTor(appendSorted(Tor, msg))
        /\ last' = [op |-> "appendSorted",
                    atEnd |-> (appendSortedIndex(m_messages, msg) = Len(m_messages)),
                    clean |-> m_indexOk, raised |-> FALSE]
        /\ UNCHANGED <<m_language, m_errors, cd, byId, byContents, dev, ByteOrder>>

IndexReplaceSorted ==
    \E msg \in IndexMsgs :
        \E r \in {replaceSorted(Tor, msg)} :
            /\ Len(r.t.m_messages) <= MaxIndexMsgs
            /\ SetTor(r.t)
            /\ last' = [op |-> "replaceSorted", raised |-> r.raised]
            /\ UNCHANGED <<m_language, m_errors, cd, byId, byContents, dev, ByteOrder>>

IndexExtend ==
    /\ Len(m_errors) < MaxExtendErrors
    /\ \E msg \in IndexMsgs :
        \E r \in {extend(Tor, msg, m_errors)} :
            /\ Len(r.t.m_messages) <= MaxIndexMsgs
            /\ SetTor(r.t)
            /\ m_errors' = r.errors
            /\ last' = [op |-> "extend", raised |-> r.raised]
            /\ UNCHANGED <<m_language, cd, byId, byContents, dev, ByteOrder>>

IndexStrip ==
    \E pass \in StripPasses :
        /\ SetTor(stripMessages(Tor, pass))
        /\ last' = [op |-> "strip", removed |-> Len(stripMessages(Tor, pass).m_messages)
                                                   < Len(m_messages),
                    raised |-> FALSE]
        /\ UNCHANGED <<m_language, m_errors, cd, byId, byContents, dev, ByteOrder>>

IndexResolveDuplicates ==
    \E st \in {resolveDuplicates(Tor, byId, byContents)} :
        /\ m_messages' = st.msgs
        /\ m_indexOk' = st.m_indexOk
        /\ byId' = st.byId
        /\ byContents' = st.byContents
        /\ last' = [op |-> "resolveDuplicates",
                    removed |-> Len(st.msgs) < Len(m_messages), raised |-> FALSE]
        /\ UNCHANGED <<m_ctxCmtIdx, m_idMsgIdx, m_msgIdx, m_language, m_errors, cd,
                       dev, ByteOrder>>

IndexFind ==
    \E msg \in IndexMsgs :
        /\ SetTor(ensureIndexed(Tor))
        /\ last' = [op |-> "find", arg |-> msg, ret |-> find(Tor, msg),
                    stale |-> ~m_indexOk, raised |-> FALSE]
        /\ UNCHANGED <<m_language, m_errors, cd, byId, byContents, dev, ByteOrder>>

NextIndex ==
    \/ IndexInsert
    \/ IndexAppendSorted
    \/ IndexReplaceSorted
    \/ IndexExtend
    \/ IndexStrip
    \/ IndexResolveDuplicates
    \/ IndexFind

SpecIndex == InitIndex /\ [][NextIndex]_vars

\* The store under insertion and lookup alone: the indices are built by
\* insertions at the end and rebuilt by ensureIndexed, never changed in place.
NextLookup == IndexInsert \/ IndexFind

SpecLookup == InitIndex /\ [][NextLookup]_vars

(***************************************************************************)
(* Claims about the lazy indices.                                          *)
(***************************************************************************)
\* C24: find(msg) returns not-found or a position of the store whose entry has
\* the content identity of msg or its id; an insertion that is not at the end
\* of a clean store, and every removal, leaves the indices marked stale; and
\* find leaves them built.
C24_LazyIndexSound ==
    /\ last.op = "find" =>
          /\ \/ last.ret = -1
             \/ /\ last.ret \in 0..(Len(m_messages) - 1)
                /\ \/ TMMKey(m_messages[last.ret + 1]) = TMMKey(last.arg)
                   \/ /\ last.arg.m_id # EmptyStr
                      /\ m_messages[last.ret + 1].m_id = last.arg.m_id
          /\ m_indexOk
    /\ (last.op \in {"insert", "appendSorted"} /\ ~(last.atEnd /\ last.clean)) => ~m_indexOk
    /\ (last.op \in {"strip", "resolveDuplicates"} /\ last.removed) => ~m_indexOk

\* C24's case: find has rebuilt stale indices and found its message at a
\* position that is not the first.
C24_Witness ==
    /\ last.op = "find"
    /\ last.stale
    /\ last.ret > 0
    /\ TMMKey(m_messages[last.ret + 1]) = TMMKey(last.arg)

(***************************************************************************)
(* Duplicate resolution on stores of up to MaxResolveMsgs entries with and *)
(* without ids, source texts and comments, followed by the report.         *)
(***************************************************************************)
MaxResolveMsgs == 3

\* ids "", "x", "y"; source texts "s", ""; comments "", "k", "l"
ResolveMsgs ==
    {TranslatorMessage(id, <<99>>, src, cmt, <<EmptyStr>>, "Unfinished", FALSE) :
        id \in {EmptyStr, <<120>>, <<121>>},
        src \in {<<115>>, EmptyStr},
        cmt \in {EmptyStr, <<107>>, <<108>>}}

InitResolve == InitCommon /\ ByteOrder = "LittleEndian"

ResolveAppend ==
    /\ last.op \in {"init", "append"}
    /\ Len(m_messages) < MaxResolveMsgs
    /\ \E msg \in ResolveMsgs :
        /\ SetTor(append(Tor, msg))
        /\ last' = [op |-> "append"]
        /\ UNCHANGED <<m_language, m_errors, cd, byId, byContents, dev, ByteOrder>>

ResolveResolveDuplicates ==
    /\ last.op = "append"
    /\ \E st \in {resolveDuplicates(Tor, byId, byContents)} :
        /\ m_messages' = st.msgs
        /\ m_indexOk' = st.m_indexOk
        /\ byId' = st.byId
        /\ byContents' = st.byContents
        /\ last' = [op |-> "resolveDuplicates", pre |-> m_messages,
                    ret |-> [byId |-> st.byId, byContents |-> st.byContents]]
        /\ UNCHANGED <<m_ctxCmtIdx, m_idMsgIdx, m_msgIdx, m_language, m_errors, cd,
                       dev, ByteOrder>>

\* reportDuplicates(dupes, fileName, verbose) on what resolveDuplicates returned
ResolveReportDuplicates ==
    /\ last.op = "resolveDuplicates"
    /\ \E verbose \in BOOLEAN :
        /\ last' = [op |-> "reportDuplicates", pre |-> last.pre, ret |-> last.ret,
                    verbose |-> verbose,
                    raised |-> reportDuplicates(Tor, last.ret, verbose).raised]
        /\ UNCHANGED <<m_messages, m_indexOk, m_ctxCmtIdx, m_idMsgIdx, m_msgIdx,
                       m_language, m_errors, cd, byId, byContents, dev, ByteOrder>>

NextResolve == ResolveAppend \/ ResolveResolveDuplicates \/ ResolveReportDuplicates

SpecResolve == InitResolve /\ [][NextResolve]_vars

(***************************************************************************)
(* Claims about duplicate resolution.                                      *)
(***************************************************************************)
\* Two entries are duplicates of one another: the same non-empty id, or the
\* same content identity.
DuplicateOf(a, b) ==
    \/ a.m_id # EmptyStr /\ a.m_id = b.m_id
    \/ TMMKey(a) = TMMKey(b)

\* C26: every position resolveDuplicates returns in byId or byContents is a
\* position of the resulting store, 0 <= p < messageCount, at which the entry
\* that a removed duplicate matched stands, and reportDuplicates reads every
\* reported position without raising.
C26_ReportedPositionsValid ==
    /\ last.op = "resolveDuplicates" =>
          \A p \in last.ret.byId \cup last.ret.byContents :
              /\ p \in 0..(Len(m_messages) - 1)
              /\ Cardinality({j \in 1..Len(last.pre) :
                                 DuplicateOf(last.pre[j], m_messages[p + 1])}) >= 2
    /\ last.op = "reportDuplicates" => ~last.raised

\* C28: after resolveDuplicates no two entries of the store have the same
\* non-empty id, and no two entries without an id have the same content
\* identity (context, sourceText, comment).
C28_NoDuplicatesLeft ==
    last.op = "resolveDuplicates" =>
        \A i, j \in 1..Len(m_messages) :
            i < j =>
                /\ ~(m_messages[i].m_id # EmptyStr /\ m_messages[i].m_id = m_messages[j].m_id)
                /\ ~(/\ m_messages[i].m_id = EmptyStr
                     /\ m_messages[j].m_id = EmptyStr
                     /\ TMMKey(m_messages[i]) = TMMKey(m_messages[j]))

\* C28's case: a store of three entries that held one duplicate by id and one
\* by content has been resolved to a single entry.
C28_Witness ==
    /\ last.op = "resolveDuplicates"
    /\ Len(last.pre) = 3
    /\ Len(m_messages) = 1
    /\ \E i, j \in 1..3 :
           /\ i < j
           /\ last.pre[i].m_id # EmptyStr /\ last.pre[i].m_id = last.pre[j].m_id
           /\ TMMKey(last.pre[i]) # TMMKey(last.pre[j])
    /\ \E i, j \in 1..3 :
           /\ i < j
           /\ last.pre[j].m_id = EmptyStr
           /\ TMMKey(last.pre[i]) = TMMKey(last.pre[j])

(***************************************************************************)
(* lrelease in the encoding that is not id-based, on stores whose entries  *)
(* share a context and a source text and differ in comment and             *)
(* translation.                                                            *)
(***************************************************************************)
MaxReleaseMsgs == 3

\* context "a" (one entry with no context), source text "s", comments "",
\* "k", "l", translations "u", "v"
ReleaseMsgs ==
    {TranslatorMessage(EmptyStr, <<97>>, <<115>>, cmt, <<tr>>, "Finished", FALSE) :
        cmt \in {EmptyStr, <<107>>, <<108>>}, tr \in {<<117>>, <<118>>}}
    \cup {TranslatorMessage(EmptyStr, EmptyStr, <<115>>, <<107>>, <<<<117>>>>, "Finished", FALSE)}

ReleaseConfigs == {c \in Configs : ~c.m_idBased /\ c.m_unTrPrefix = EmptyStr}

InitRelease == InitCommon /\ ByteOrder = "LittleEndian"

ReleaseConfigure ==
    /\ last.op = "init"
    /\ \E c \in ReleaseConfigs :
          /\ cd' = c
          /\ last' = [op |-> "configure"]
    /\ UNCHANGED <<m_messages, m_indexOk, m_ctxCmtIdx, m_idMsgIdx, m_msgIdx, m_language,
                   m_errors, byId, byContents, dev, ByteOrder>>

ReleaseAppend ==
    /\ last.op \in {"configure", "append"}
    /\ Len(m_messages) < MaxReleaseMsgs
    /\ \E msg \in ReleaseMsgs :
          /\ SetTor(append(Tor, msg))
          /\ last' = [op |-> "append"]
    /\ UNCHANGED <<m_language, m_errors, cd, byId, byContents, dev, ByteOrder>>

\* saveQM; the history keeps the records it handed to squeeze.
ReleaseSaveQM ==
    /\ last.op = "append"
    /\ \E r \in {saveQM(m_messages, m_language, cd, m_errors)} :
          /\ dev' = IF r.raised THEN dev ELSE r.dev
          /\ m_errors' = r.errors
          /\ last' = [op |-> "saveQM", raised |-> r.raised, ret |-> r.ret,
                      rel |-> ConvertedRecords(m_messages, cd)]
    /\ UNCHANGED <<m_messages, m_indexOk, m_ctxCmtIdx, m_idMsgIdx, m_msgIdx,
                   m_language, cd, byId, byContents, ByteOrder>>

NextRelease == ReleaseConfigure \/ ReleaseAppend \/ ReleaseSaveQM

SpecRelease == InitRelease /\ [][NextRelease]_vars

\* C27: in the encoding that is not id-based, when the retained entries of
\* the store have pairwise distinct content identities, the records handed to
\* squeeze have pairwise distinct (context, sourceText, comment): among the
\* entries sharing (context, sourceText) and differing in their non-empty
\* comments at most one has its comment dropped, whatever their translations.
C27_DistinctRecordKeys ==
    (/\ last.op = "saveQM"
     /\ \A i, j \in 1..Len(m_messages) :
            i # j => TMMKey(m_messages[i]) # TMMKey(m_messages[j]))
    => /\ Cardinality(RecordKeys(last.rel)) = Len(last.rel)
       /\ Len(last.rel) = Len(m_messages)

(***************************************************************************)
(* Rule-program evaluation and the gettext plural expressions of the       *)
(* table.  The repository holds the rule programs and the expressions; the *)
(* evaluation of a program follows the description of the specification:   *)
(* rules from left to right, separated by NEWRULE; within a rule the terms *)
(* are combined by AND and OR in the order of the opcodes, none binding    *)
(* tighter; the cardinal is transformed (mod 10, mod 100, leading group of *)
(* thousands) before the comparison; NOT inverts the comparison; the first *)
(* rule whose condition holds gives the form, the last form otherwise.     *)
(***************************************************************************)
MaxCardinal == 200

RECURSIVE lead1000(_)
lead1000(n) == IF n >= 1000 THEN lead1000(n \div 1000) ELSE n

\* The term whose opcode stands at position i (from 1) of a program: whether
\* it holds of n, and the position behind its operands.
evalTerm(rules, n, i) ==
    LET op == rules[i]
        cmp == op % (Q_OP_MASK + 1)
        neg == (op \div Q_NOT) % 2 = 1
        m == IF (op \div Q_MOD_10) % 2 = 1 THEN n % 10
             ELSE IF (op \div Q_MOD_100) % 2 = 1 THEN n % 100
             ELSE IF (op \div Q_LEAD_1000) % 2 = 1 THEN lead1000(n)
             ELSE n
        holds == CASE cmp = Q_EQ -> m = rules[i + 1]
                   [] cmp = Q_LT -> m < rules[i + 1]
                   [] cmp = Q_LEQ -> m <= rules[i + 1]
                   [] cmp = Q_BETWEEN -> rules[i + 1] <= m /\ m <= rules[i + 2]
                   [] OTHER -> FALSE
    IN  [truth |-> (holds # neg), next |-> IF cmp = Q_BETWEEN THEN i + 3 ELSE i + 2]

\* The rules from the term at position i on; result counts the rules that
\* did not hold, truth is the value of the rule so far, comb the combinator
\* that stands before the term.
RECURSIVE evaluateFrom(_, _, _, _, _, _)
evaluateFrom(rules, n, i, result, truth, comb) ==
    LET t == evalTerm(rules, n, i)
        acc == CASE comb = Q_AND -> truth /\ t.truth
                 [] comb = Q_OR -> truth \/ t.truth
                 [] OTHER -> t.truth
    IN  IF t.next > Len(rules) THEN (IF acc THEN result ELSE result + 1)
        ELSE IF rules[t.next] = Q_NEWRULE
        THEN (IF acc THEN result
              ELSE evaluateFrom(rules, n, t.next + 1, result + 1, FALSE, Q_NEWRULE))
        ELSE evaluateFrom(rules, n, t.next + 1, result, acc, rules[t.next])

\* evaluate(ruleProgram, n) -> formIndex; the empty program has one form.
evaluate(rules, n) ==
    IF rules = <<>> THEN 0 ELSE evaluateFrom(rules, n, 1, 0, FALSE, Q_NEWRULE)

\* The value of the plural expression of a gettextRules string for n, with
\* the operators of C: ?: groups to the right, && binds tighter than ||.
gettextPlural(gettextRules, n) ==
    LET B(b) == IF b THEN 1 ELSE 0
    IN  CASE gettextRules = "nplurals=1; plural=0;" -> 0
          [] gettextRules = "nplurals=2; plural=(n != 1);" -> B(n # 1)
          [] gettextRules = "nplurals=2; plural=(n > 1);" -> B(n > 1)
          [] gettextRules = "nplurals=3; plural=(n%10==1 && n%100!=11 ? 0 : n != 0 ? 1 : 2);" ->
                IF n % 10 = 1 /\ n % 100 # 11 THEN 0 ELSE IF n # 0 THEN 1 ELSE 2
          [] gettextRules = "nplurals=2; plural=(n%10==1 && n%100!=11 ? 0 : 1);" ->
                IF n % 10 = 1 /\ n % 100 # 11 THEN 0 ELSE 1
          [] gettextRules = "nplurals=3; plural=(n==1 ? 0 : n==2 ? 1 : 2);" ->
                IF n = 1 THEN 0 ELSE IF n = 2 THEN 1 ELSE 2
          [] gettextRules = "nplurals=4; plural=(n==1 || n==11) ? 0 : (n==2 || n==12) ? 1 : (n > 2 && n < 20) ? 2 : 3;" ->
                IF n = 1 \/ n = 11 THEN 0
                ELSE IF n = 2 \/ n = 12 THEN 1
                ELSE IF n > 2 /\ n < 20 THEN 2 ELSE 3
          [] gettextRules = "nplurals=3; plural=((n==1) ? 0 : (n>=2 && n<=4) ? 1 : 2);" ->
                IF n = 1 THEN 0 ELSE IF n >= 2 /\ n <= 4 THEN 1 ELSE 2
          [] gettextRules = "nplurals=3; plural=(n%100==1 ? 0 : n%100==2 ? 1 : 2);" ->
                IF n % 100 = 1 THEN 0 ELSE IF n % 100 = 2 THEN 1 ELSE 2
          [] gettextRules = "nplurals=3; plural=(n%10==1 && n%100!=11 ? 0 : n%10>=2 && (n%100<10 || n%100>=20) ? 1 : 2);" ->
                IF n % 10 = 1 /\ n % 100 # 11 THEN 0
                ELSE IF n % 10 >= 2 /\ (n % 100 < 10 \/ n % 100 >= 20) THEN 1 ELSE 2
          [] gettextRules = "nplurals=3; plural=(n%10==1 && n%100!=11 ? 0 : n%10>=2 && n%10<=4 && (n%100<10 || n%100>=20) ? 1 : 2);" ->
                IF n % 10 = 1 /\ n % 100 # 11 THEN 0
                ELSE IF n % 10 >= 2 /\ n % 10 <= 4 /\ (n % 100 < 10 \/ n % 100 >= 20)
                THEN 1 ELSE 2
          [] gettextRules = "nplurals=3; plural=(n==1 ? 0 : n%10>=2 && n%10<=4 && (n%100<10 || n%100>=20) ? 1 : 2);" ->
                IF n = 1 THEN 0
                ELSE IF n % 10 >= 2 /\ n % 10 <= 4 /\ (n % 100 < 10 \/ n % 100 >= 20)
                THEN 1 ELSE 2
          [] gettextRules = "nplurals=3; plural=(n==1 ? 0 : (n==0 || (n%100 > 0 && n%100 < 20)) ? 1 : 2);" ->
                IF n = 1 THEN 0
                ELSE IF n = 0 \/ (n % 100 > 0 /\ n % 100 < 20) THEN 1 ELSE 2
          [] gettextRules = "nplurals=4; plural=(n%100==1 ? 0 : n%100==2 ? 1 : n%100==3 || n%100==4 ? 2 : 3);" ->
                IF n % 100 = 1 THEN 0
                ELSE IF n % 100 = 2 THEN 1
                ELSE IF n % 100 = 3 \/ n % 100 = 4 THEN 2 ELSE 3
          [] gettextRules = "nplurals=4; plural=(n==1 ? 0 : (n==0 || (n%100>=1 && n%100<=10)) ? 1 : (n%100>=11 && n%100<=19) ? 2 : 3);" ->
                IF n = 1 THEN 0
                ELSE IF n = 0 \/ (n % 100 >= 1 /\ n % 100 <= 10) THEN 1
                ELSE IF n % 100 >= 11 /\ n % 100 <= 19 THEN 2 ELSE 3
          [] gettextRules = "nplurals=5; plural=(n==0 ? 0 : n==1 ? 1 : (n>=2 && n<=5) ? 2 : n==6 ? 3 : 4);" ->
                IF n = 0 THEN 0
                ELSE IF n = 1 THEN 1
                ELSE IF n >= 2 /\ n <= 5 THEN 2
                ELSE IF n = 6 THEN 3 ELSE 4
          [] gettextRules = "nplurals=6; plural=(n==0 ? 0 : n==1 ? 1 : n==2 ? 2 : (n%100>=3 && n%100<=10) ? 3 : n%100>=11 ? 4 : 5);" ->
                IF n = 0 THEN 0
                ELSE IF n = 1 THEN 1
                ELSE IF n = 2 THEN 2
                ELSE IF n % 100 >= 3 /\ n % 100 <= 10 THEN 3
                ELSE IF n % 100 >= 11 THEN 4 ELSE 5
          [] gettextRules = "nplurals=3; plural=(n==1 ? 0 : (n%10==4 || n%10==6 || n%10== 9) ? 1 : 2);" ->
                IF n = 1 THEN 0
                ELSE IF n % 10 = 4 \/ n % 10 = 6 \/ n % 10 = 9 THEN 1 ELSE 2
          [] OTHER -> -1

InitPlural == InitCommon /\ ByteOrder = "LittleEndian"

\* An entry of the table and a cardinal: the form its rule program selects and
\* the value of its gettext expression.
PluralEvaluate ==
    /\ last.op = "init"
    /\ \E e \in 1..Len(numerusTable), n \in 0..MaxCardinal :
        /\ last' = [op |-> "evaluate", entry |-> e, n |-> n,
                    form |-> evaluate(numerusTable[e].rules, n),
                    gettext |-> gettextPlural(numerusTable[e].gettextRules, n)]
        /\ UNCHANGED <<m_messages, m_indexOk, m_ctxCmtIdx, m_idMsgIdx, m_msgIdx,
                       m_language, m_errors, cd, byId, byContents, dev, ByteOrder>>

NextPlural == PluralEvaluate

SpecPlural == InitPlural /\ [][NextPlural]_vars

\* C30: for every entry of the plural rule table and every cardinal n of
\* 0..200, the rule program of the entry selects the form index that the
\* gettext plural expression of the same entry gives for n.
C30_RulesAgreeWithGettext ==
    last.op = "evaluate" => last.form = last.gettext

=============================================================================
